---- MODULE Spec2Model ----
(***************************************************************************)
(* Space Shooter (src/space_shooter.py): the Game object as a state        *)
(* machine.  Every method of Game that changes state is an operator on a   *)
(* record g holding the fields of self; an action applies the handler of   *)
(* one event (or one frame's update) to the current fields.                *)
(*                                                                         *)
(* Numbers: vertical enemy positions are kept in hundredths of a pixel     *)
(* (the speeds 2.0, 2.16 and 2.3 px/tick are 200, 216 and 230), every      *)
(* other coordinate in pixels.  pygame.Rect truncates a float coordinate   *)
(* toward zero (RectY).  Sprite sizes are the sizes the classes fall back  *)
(* to when an image cannot be loaded (the image files are not part of the  *)
(* source).  A text is a sequence of one-character strings.                *)
(***************************************************************************)
EXTENDS Integers, Sequences, FiniteSets, TLC

\* ------------------------------------------------------------------------
\* Program constants
\* ------------------------------------------------------------------------
SCREEN_WIDTH == 1280
SCREEN_HEIGHT == 720
PLAYER_WIDTH == 64
PLAYER_HEIGHT == 64
PLAYER_SPEED == 8
BULLET_WIDTH == 8
BULLET_HEIGHT == 32
BULLET_SPEED == 7
ENEMY_WIDTH == 64
ENEMY_HEIGHT == 64
enemy_spawn_delay == 60
LEADERBOARD_SIZE == 10
NAME_LIMIT == 10
PASSWORD_LIMIT == 20
POINTS == 10

Difficulties == {"easy", "medium", "hard"}

Screens ==
  {"MAIN_MENU", "DIFFICULTY_SELECT", "CHARACTER_SELECT", "SETTINGS", "PLAYING",
   "LEADERBOARD", "NAME_ENTRY", "PASSWORD_ENTRY", "GAME_OVER", "QUIT_CONFIRM"}

ADMIN_PASSWORD == <<"a", "d", "m", "i", "n", "1", "2", "3">>

\* ------------------------------------------------------------------------
\* Bounds of the model
\* ------------------------------------------------------------------------
\* the frames of at most this many sessions are explored in one run of the
\* program; a later session can be started, paused and left, but not played
MaxSessions == 1
\* shoot_bullet is explored at most this many times in one session
MaxShots == 1

\* ------------------------------------------------------------------------
\* Texts
\* ------------------------------------------------------------------------
\* str.upper() of one typed character: one character for most, two for the
\* sharp s; the empty text for a key that produces no character (Shift)
Upper(ch) ==
  CASE ch = "a" -> <<"A">>
    [] ch = "b" -> <<"B">>
    [] ch = "s" -> <<"S">>
    [] ch = "sharp_s" -> <<"S", "S">>
    [] ch = "" -> <<>>
    [] OTHER -> <<ch>>

RECURSIVE UpperText(_)
UpperText(t) == IF t = <<>> THEN <<>> ELSE Upper(Head(t)) \o UpperText(Tail(t))

\* name.strip() == ""
IsBlank(t) == \A i \in 1..Len(t) : t[i] = " "

\* t[:n]
Take(t, n) == IF Len(t) <= n THEN t ELSE SubSeq(t, 1, n)

\* t[:-1]
DropLast(t) == IF t = <<>> THEN <<>> ELSE SubSeq(t, 1, Len(t) - 1)

IsPrefix(p, t) == Len(p) <= Len(t) /\ SubSeq(t, 1, Len(p)) = p

\* list.remove(e): the first element equal to e
RECURSIVE RemoveFirst(_, _)
RemoveFirst(s, e) ==
  IF s = <<>> THEN <<>>
  ELSE IF Head(s) = e THEN Tail(s)
  ELSE <<Head(s)>> \o RemoveFirst(Tail(s), e)

\* ------------------------------------------------------------------------
\* Persistence gateway.  A file is <<>> when absent, <<text>> when present
\* and <<text, "denied">> when present but not to be opened; a text is the
\* sequence of the lexemes of the JSON document, the white
\* space of indent=2 left out: <<"punct", c>>, <<"number", digits>> and
\* <<"string", the characters between the quotes>>.
\* ------------------------------------------------------------------------
DefaultHighScores == [d \in Difficulties |-> 0]
DefaultLeaderboards == [d \in Difficulties |-> <<>>]

\* the keys of the two dictionaries, as texts and in the order of insertion
KeyChars(k) ==
  CASE k = "easy" -> <<"e", "a", "s", "y">>
    [] k = "medium" -> <<"m", "e", "d", "i", "u", "m">>
    [] k = "hard" -> <<"h", "a", "r", "d">>
    [] k = "name" -> <<"n", "a", "m", "e">>
    [] k = "score" -> <<"s", "c", "o", "r", "e">>
Keys == {"easy", "medium", "hard", "name", "score"}
\* a key that neither dictionary uses is read as "other"
KeyOf(chars) ==
  IF \E k \in Keys : KeyChars(k) = chars
  THEN CHOOSE k \in Keys : KeyChars(k) = chars
  ELSE "other"
DifficultyOrder == <<"easy", "medium", "hard">>

Punct(c) == <<"punct", c>>

\* json.dump of an int: its decimal digits
DigitChars == <<"0", "1", "2", "3", "4", "5", "6", "7", "8", "9">>
RECURSIVE Digits(_)
Digits(n) ==
  IF n < 10 THEN <<DigitChars[n + 1]>>
  ELSE Digits(n \div 10) \o <<DigitChars[(n % 10) + 1]>>

\* json.dump of a str: the quote and the backslash are escaped
Escaped(ch) == IF ch \in {"\"", "\\"} THEN <<"\\", ch>> ELSE <<ch>>

RECURSIVE EscapedText(_)
EscapedText(t) == IF t = <<>> THEN <<>> ELSE Escaped(Head(t)) \o EscapedText(Tail(t))

String(t) == <<"string", EscapedText(t)>>
Number(n) == <<"number", Digits(n)>>

\* the keys a dictionary holds, in the order in which they are written
MembersOf(table) == SelectSeq(DifficultyOrder, LAMBDA k : k \in DOMAIN table)

\* json.dump: the members the dictionary holds, commas between
json_dump_high_scores(hs) ==
  LET ks == MembersOf(hs)
      Member(i) ==
        IF i > Len(ks) THEN <<>>
        ELSE (IF i = 1 THEN <<>> ELSE <<Punct(",")>>)
               \o <<String(KeyChars(ks[i])), Punct(":"), Number(hs[ks[i]])>>
  IN <<Punct("{")>> \o Member(1) \o Member(2) \o Member(3) \o <<Punct("}")>>

DumpEntry(e) ==
  <<Punct("{"), String(KeyChars("name")), Punct(":"), String(e.name), Punct(","),
    String(KeyChars("score")), Punct(":"), Number(e.score), Punct("}")>>

RECURSIVE DumpEntries(_)
DumpEntries(t) ==
  IF t = <<>> THEN <<>>
  ELSE IF Len(t) = 1 THEN DumpEntry(t[1])
  ELSE DumpEntries(DropLast(t)) \o <<Punct(",")>> \o DumpEntry(t[Len(t)])

json_dump_leaderboards(lb) ==
  LET ks == MembersOf(lb)
      Member(i) ==
        IF i > Len(ks) THEN <<>>
        ELSE (IF i = 1 THEN <<>> ELSE <<Punct(",")>>)
               \o <<String(KeyChars(ks[i])), Punct(":"), Punct("[")>>
               \o DumpEntries(lb[ks[i]]) \o <<Punct("]")>>
  IN <<Punct("{")>> \o Member(1) \o Member(2) \o Member(3) \o <<Punct("}")>>

\* json.load: the value of a number, the text of a string
RECURSIVE NumberValue(_)
NumberValue(ds) ==
  IF ds = <<>> THEN 0
  ELSE 10 * NumberValue(DropLast(ds))
         + (CHOOSE v \in 0..9 : DigitChars[v + 1] = ds[Len(ds)])

\* a decoder that keeps the text between the quotes as it is written
Unescaped_kept(cs) == cs

RECURSIVE Unescaped(_)
Unescaped(cs) ==
  IF cs = <<>> THEN <<>>
  ELSE IF Head(cs) = "\\" /\ Len(cs) >= 2
       THEN <<cs[2]>> \o Unescaped(SubSeq(cs, 3, Len(cs)))
       ELSE <<Head(cs)>> \o Unescaped(Tail(cs))

\* a dictionary from its members in the order read, the last of a key winning
Dict(members) ==
  [k \in {members[j][1] : j \in 1..Len(members)} |->
     LET js == {j \in 1..Len(members) : members[j][1] = k}
     IN members[CHOOSE j \in js : \A i \in js : i <= j][2]]

\* json.load: the value that starts at lexeme i, and the place after it; the
\* place 0 when no value can be read there
Unread == <<<<>>, 0>>
Is_(text, i, c) == i <= Len(text) /\ text[i] = Punct(c)

RECURSIVE ParseValue(_, _)
RECURSIVE ParseElements(_, _, _)
RECURSIVE ParseMembers(_, _, _)
ParseValue(text, i) ==
  IF i > Len(text) THEN Unread
  ELSE CASE text[i][1] = "number" -> <<NumberValue(text[i][2]), i + 1>>
         [] text[i][1] = "string" -> <<Unescaped(text[i][2]), i + 1>>
         [] text[i] = Punct("[") ->
              IF Is_(text, i + 1, "]") THEN <<<<>>, i + 2>>
              ELSE ParseElements(text, i + 1, <<>>)
         [] text[i] = Punct("{") ->
              IF Is_(text, i + 1, "}") THEN <<Dict(<<>>), i + 2>>
              ELSE ParseMembers(text, i + 1, <<>>)
         [] OTHER -> Unread

ParseElements(text, i, read) ==
  LET v == ParseValue(text, i)
  IN IF v[2] = 0 THEN Unread
     ELSE IF Is_(text, v[2], ",") THEN ParseElements(text, v[2] + 1, Append(read, v[1]))
     ELSE IF Is_(text, v[2], "]") THEN <<Append(read, v[1]), v[2] + 1>>
     ELSE Unread

ParseMembers(text, i, read) ==
  IF i > Len(text) \/ text[i][1] # "string" \/ ~Is_(text, i + 1, ":") THEN Unread
  ELSE LET v == ParseValue(text, i + 2)
           member == <<KeyOf(Unescaped(text[i][2])), v[1]>>
       IN IF v[2] = 0 THEN Unread
          ELSE IF Is_(text, v[2], ",") THEN ParseMembers(text, v[2] + 1, Append(read, member))
          ELSE IF Is_(text, v[2], "}") THEN <<Dict(Append(read, member)), v[2] + 1>>
          ELSE Unread

\* json.load: <<TRUE, the value>> of a text that is one JSON document,
\* <<FALSE, ...>> when it raises
json_load(text) ==
  LET v == ParseValue(text, 1)
  IN IF v[2] = Len(text) + 1 THEN <<TRUE, v[1]>> ELSE <<FALSE, <<>>>>

\* a file that is there and can be opened holds its text only
Opens(file) == Len(file) = 1

\* a load that takes the tables read before the text went wrong
load_high_scores_lenient(file) ==
  IF Opens(file) THEN ParseValue(file[1], 1)[1] ELSE DefaultHighScores

load_high_scores(file) ==
  IF Opens(file) /\ json_load(file[1])[1] THEN json_load(file[1])[2] ELSE DefaultHighScores
load_leaderboards(file) ==
  IF Opens(file) /\ json_load(file[1])[1] THEN json_load(file[1])[2] ELSE DefaultLeaderboards

\* the writes succeed: the file is overwritten with the whole document
save_high_scores(g) == [g EXCEPT !.hs_file = <<json_dump_high_scores(g.high_scores)>>]
\* a save that leaves the file as it was
save_leaderboards_unwritten(g) == g

save_leaderboards(g) == [g EXCEPT !.lb_file = <<json_dump_leaderboards(g.leaderboards)>>]

\* table[key] of a dictionary raises when the key is missing; an exception
\* that nothing catches ends the program where it is raised
HasKey(table, key) == key \in DOMAIN table
Raised(g) == [g EXCEPT !.crashed = TRUE]

\* list.sort(key=score, reverse=True): a stable sort, equal scores keep their
\* order; computed as repeated stable insertion from the left
RECURSIVE InsertDesc(_, _)
InsertDesc(sorted, e) ==
  IF sorted = <<>> THEN <<e>>
  ELSE IF Head(sorted).score >= e.score
       THEN <<Head(sorted)>> \o InsertDesc(Tail(sorted), e)
       ELSE <<e>> \o sorted

\* a sort that leaves the entries in the order of insertion
KeepOrder(s) == s

RECURSIVE SortDesc(_)
SortDesc(s) ==
  IF s = <<>> THEN <<>>
  ELSE InsertDesc(SortDesc(DropLast(s)), s[Len(s)])

\* an insertion that appends the entry twice
add_to_leaderboard_twice(g, name, score, difficulty) ==
  LET entry == [name |-> Take(name, NAME_LIMIT), score |-> score]
      appended == Append(Append(g.leaderboards[difficulty], entry), entry)
      kept == Take(SortDesc(appended), LEADERBOARD_SIZE)
  IN save_leaderboards([g EXCEPT !.leaderboards[difficulty] = kept])

add_to_leaderboard(g, name, score, difficulty) ==
  LET entry == [name |-> Take(name, NAME_LIMIT), score |-> score]
      appended == Append(g.leaderboards[difficulty], entry)
      kept == Take(SortDesc(appended), LEADERBOARD_SIZE)
  IN save_leaderboards([g EXCEPT !.leaderboards[difficulty] = kept])

\* validate_name: <<is_valid, error message>>
\* a validation that does not look the name up in the table
validate_name_unlisted(g, name) ==
  IF name = <<>> \/ IsBlank(name) THEN <<FALSE, "Please enter a name!">>
  ELSE <<TRUE, "">>

validate_name(g, name) ==
  IF name = <<>> \/ IsBlank(name) THEN <<FALSE, "Please enter a name!">>
  ELSE IF \E i \in 1..Len(g.leaderboards[g.difficulty]) :
            UpperText(g.leaderboards[g.difficulty][i].name) = UpperText(name)
       THEN <<FALSE, "Username already taken!">>
       ELSE <<TRUE, "">>

\* a reset that forgets the best scores
clear_leaderboards_only(g) ==
  save_high_scores(save_leaderboards([g EXCEPT !.leaderboards = DefaultLeaderboards]))

clear_all_leaderboards(g) ==
  save_high_scores(save_leaderboards(
    [g EXCEPT !.leaderboards = DefaultLeaderboards,
              !.high_scores = DefaultHighScores]))

\* ------------------------------------------------------------------------
\* Entities.  player is <<>> (None) or <<x>>; its y is fixed.  A bullet is
\* [x, y] in pixels; an enemy is [x, y] with y in hundredths of a pixel.
\* ------------------------------------------------------------------------
PlayerY == SCREEN_HEIGHT - 120
PlayerStartX == SCREEN_WIDTH \div 2 - 40

\* int() of a float coordinate held in hundredths
RectY(y) == IF y >= 0 THEN y \div 100 ELSE -((-y) \div 100)

\* pygame.Rect.colliderect
colliderect(ax, ay, aw, ah, bx, by, bw, bh) ==
  /\ ax < bx + bw
  /\ ay < by + bh
  /\ ax + aw > bx
  /\ ay + ah > by

BulletHitsEnemy(b, e) ==
  colliderect(b.x, b.y, BULLET_WIDTH, BULLET_HEIGHT,
              e.x, RectY(e.y), ENEMY_WIDTH, ENEMY_HEIGHT)

PlayerHitsEnemy(px, e) ==
  colliderect(px, PlayerY, PLAYER_WIDTH, PLAYER_HEIGHT,
              e.x, RectY(e.y), ENEMY_WIDTH, ENEMY_HEIGHT)

\* Player.move_left / Player.move_right
move_left(x) == IF x - PLAYER_SPEED < 0 THEN 0 ELSE x - PLAYER_SPEED
move_right(x) ==
  IF x + PLAYER_SPEED > SCREEN_WIDTH - PLAYER_WIDTH
  THEN SCREEN_WIDTH - PLAYER_WIDTH ELSE x + PLAYER_SPEED

\* Bullet.update, Bullet.is_off_screen
BulletUpdate(b) == [b EXCEPT !.y = b.y - BULLET_SPEED]
BulletOffScreen(b) == b.y < -BULLET_HEIGHT

\* Enemy.__init__: speed = 2 * speed_multiplier, in hundredths per tick
EnemySpeed(mult) == 2 * mult
\* an enemy that stays where it was spawned
EnemyUpdate_hovering(e, mult) == e

\* Enemy.update, Enemy.is_off_screen
EnemyUpdate(e, mult) == [e EXCEPT !.y = e.y + EnemySpeed(mult)]
EnemyOffScreen(e) == e.y > SCREEN_HEIGHT * 100

\* ------------------------------------------------------------------------
\* Game methods
\* ------------------------------------------------------------------------
\* load_sounds: the music files of Assets/Audio are found; the gameplay music
\* is loaded into the mixer, the path of the menu music is kept
gameplay_music_loaded == TRUE
menu_music_loaded == TRUE

\* pygame.mixer.music.stop(): the mixer plays nothing; current_music is the
\* field of Game, music_playing is what the mixer plays
music_stop(g) == [g EXCEPT !.music_playing = "None"]

play_music(g, music_type) ==
  IF music_type = "menu" /\ menu_music_loaded
  THEN IF g.current_music # "menu"
       THEN [music_stop(g) EXCEPT !.music_playing = "menu", !.current_music = "menu"]
       ELSE g
  ELSE IF music_type = "gameplay" /\ gameplay_music_loaded
  THEN IF g.current_music # "gameplay"
       THEN [music_stop(g) EXCEPT !.music_playing = "gameplay", !.current_music = "gameplay"]
       ELSE g
  ELSE g

StartLives(d) == CASE d = "easy" -> 7 [] d = "medium" -> 5 [] OTHER -> 3
\* game_speed_multiplier in hundredths: 1.0, 1.08, 1.15
StartMultiplier(d) == CASE d = "easy" -> 100 [] d = "medium" -> 108 [] OTHER -> 115

\* a start that keeps the enemies and the spawn timer of the last session
start_game_unswept(g) ==
  play_music(
    [g EXCEPT !.state = "PLAYING",
            !.game_over = FALSE,
            !.paused = FALSE,
            !.score = 0,
            !.lives = StartLives(g.difficulty),
            !.game_speed_multiplier = StartMultiplier(g.difficulty),
            !.player = <<PlayerStartX>>,
            !.bullets = <<>>,
            !.ticks = 0,
            !.spawned = 0],
    "gameplay")

\* a start that leaves the game_over flag as it finds it
start_game_flagged(g) ==
  play_music(
    [g EXCEPT !.state = "PLAYING",
            !.paused = FALSE,
            !.score = 0,
            !.lives = StartLives(g.difficulty),
            !.game_speed_multiplier = StartMultiplier(g.difficulty),
            !.player = <<PlayerStartX>>,
            !.bullets = <<>>,
            !.enemies = <<>>,
            !.enemy_spawn_timer = 0,
            !.ticks = 0,
            !.spawned = 0],
    "gameplay")

start_game(g) ==
  play_music(
    [g EXCEPT !.state = "PLAYING",
            !.game_over = FALSE,
            !.paused = FALSE,
            !.score = 0,
            !.lives = StartLives(g.difficulty),
            !.game_speed_multiplier = StartMultiplier(g.difficulty),
            !.player = <<PlayerStartX>>,
            !.bullets = <<>>,
            !.enemies = <<>>,
            !.enemy_spawn_timer = 0,
            !.ticks = 0,
            !.spawned = 0],
    "gameplay")

\* x is the value random.randint(0, SCREEN_WIDTH - width) returns
spawn_enemy(g, x) ==
  [g EXCEPT !.enemies = Append(g.enemies, [x |-> x, y |-> -(ENEMY_HEIGHT * 100)]),
            !.spawned = g.spawned + 1]

shoot_bullet(g) ==
  IF g.player # <<>>
  THEN [g EXCEPT !.bullets =
          Append(g.bullets, [x |-> g.player[1] + PLAYER_WIDTH \div 2 - 4, y |-> PlayerY])]
  ELSE g

Qualifies(leaderboard, score) ==
  Len(leaderboard) < LEADERBOARD_SIZE \/ score > leaderboard[Len(leaderboard)].score

\* an end of game that stores the session's score as the best score
\* whether or not it is higher
end_game_overwriting(g) ==
  LET d == g.difficulty
      g2 == save_high_scores(
              [music_stop(g) EXCEPT !.game_over = TRUE, !.high_scores[d] = g.score])
  IN IF Qualifies(g2.leaderboards[d], g2.score)
     THEN [g2 EXCEPT !.player_name = <<>>,
                     !.name_error_message = "",
                     !.state = "NAME_ENTRY"]
     ELSE [g2 EXCEPT !.state = "GAME_OVER"]

end_game(g) ==
  LET d == g.difficulty
      g1 == music_stop([g EXCEPT !.game_over = TRUE])
      g2 == IF g1.score > g1.high_scores[d]
            THEN save_high_scores([g1 EXCEPT !.high_scores[d] = g1.score])
            ELSE g1
  IN IF ~HasKey(g1.high_scores, d) THEN Raised(g1)
     ELSE IF ~HasKey(g2.leaderboards, d) THEN Raised(g2)
     ELSE IF Qualifies(g2.leaderboards[d], g2.score)
     THEN [g2 EXCEPT !.player_name = <<>>,
                     !.name_error_message = "",
                     !.state = "NAME_ENTRY"]
     ELSE [g2 EXCEPT !.state = "GAME_OVER"]

\* check_collisions, first loop: for bullet in bullets[:], for enemy in
\* enemies[:], first intersecting enemy removes both and scores; bs is the
\* copy of the bullet list taken before the loop
FirstHit(b, es) ==
  IF \E i \in 1..Len(es) : BulletHitsEnemy(b, es[i])
  THEN CHOOSE i \in 1..Len(es) :
         /\ BulletHitsEnemy(b, es[i])
         /\ \A j \in 1..(i - 1) : ~BulletHitsEnemy(b, es[j])
  ELSE 0

\* a first loop whose bullets stay in flight after a hit
RECURSIVE BulletLoop_piercing(_, _, _)
BulletLoop_piercing(g, bs, k) ==
  IF k > Len(bs) THEN g
  ELSE LET hit == FirstHit(bs[k], g.enemies)
       IN IF hit = 0 THEN BulletLoop_piercing(g, bs, k + 1)
          ELSE BulletLoop_piercing(
                 [g EXCEPT !.enemies = RemoveFirst(g.enemies, g.enemies[hit]),
                           !.score = g.score + POINTS],
                 bs, k + 1)

\* a bullet that scores and is spent but leaves the enemy it hit
RECURSIVE BulletLoop_glancing(_, _, _)
BulletLoop_glancing(g, bs, k) ==
  IF k > Len(bs) THEN g
  ELSE LET hit == FirstHit(bs[k], g.enemies)
       IN IF hit = 0 THEN BulletLoop_glancing(g, bs, k + 1)
          ELSE BulletLoop_glancing(
                 [g EXCEPT !.bullets = RemoveFirst(g.bullets, bs[k]),
                           !.score = g.score + POINTS],
                 bs, k + 1)

RECURSIVE BulletLoop(_, _, _)
BulletLoop(g, bs, k) ==
  IF k > Len(bs) THEN g
  ELSE LET hit == FirstHit(bs[k], g.enemies)
       IN IF hit = 0 THEN BulletLoop(g, bs, k + 1)
          ELSE BulletLoop(
                 [g EXCEPT !.bullets = RemoveFirst(g.bullets, bs[k]),
                           !.enemies = RemoveFirst(g.enemies, g.enemies[hit]),
                           !.score = g.score + POINTS],
                 bs, k + 1)

\* check_collisions, second loop: the first enemy intersecting the player
\* a player loop that leaves the enemy it has hit among the enemies
PlayerLoop_lingering(g) ==
  IF g.player = <<>> THEN g
  ELSE LET es == g.enemies
           hits == {i \in 1..Len(es) : PlayerHitsEnemy(g.player[1], es[i])}
       IN IF hits = {} THEN g
          ELSE LET g1 == [g EXCEPT !.lives = g.lives - 1]
               IN IF g1.lives <= 0 THEN end_game(g1) ELSE g1

PlayerLoop(g) ==
  IF g.player = <<>> THEN g
  ELSE LET es == g.enemies
           hits == {i \in 1..Len(es) : PlayerHitsEnemy(g.player[1], es[i])}
       IN IF hits = {} THEN g
          ELSE LET i == CHOOSE h \in hits : \A h2 \in hits : h <= h2
                   g1 == [g EXCEPT !.enemies = RemoveFirst(es, es[i]),
                                   !.lives = g.lives - 1]
               IN IF g1.lives <= 0 THEN end_game(g1) ELSE g1

check_collisions(g) == PlayerLoop(BulletLoop(g, g.bullets, 1))

\* update_game, second loop: for enemy in enemies[:] (es is that copy, every
\* enemy already moved): an enemy past the bottom is removed and costs a life
\* a second loop that removes the enemies past the bottom at no cost
RECURSIVE EnemyLoop_sparing(_, _, _)
EnemyLoop_sparing(g, es, k) ==
  IF k > Len(es) THEN g
  ELSE IF EnemyOffScreen(es[k])
       THEN EnemyLoop_sparing([g EXCEPT !.enemies = RemoveFirst(g.enemies, es[k])], es, k + 1)
       ELSE EnemyLoop_sparing(g, es, k + 1)

RECURSIVE EnemyLoop(_, _, _)
EnemyLoop(g, es, k) ==
  IF k > Len(es) \/ g.crashed THEN g
  ELSE IF EnemyOffScreen(es[k])
       THEN LET g1 == [g EXCEPT !.enemies = RemoveFirst(g.enemies, es[k]),
                                !.lives = g.lives - 1]
                g2 == IF g1.lives <= 0 THEN end_game(g1) ELSE g1
            IN EnemyLoop(g2, es, k + 1)
       ELSE EnemyLoop(g, es, k + 1)

MoveBullets(bs) ==
  SelectSeq([i \in 1..Len(bs) |-> BulletUpdate(bs[i])], LAMBDA b : ~BulletOffScreen(b))

MoveEnemies(es, mult) == [i \in 1..Len(es) |-> EnemyUpdate(es[i], mult)]

\* a spawn step that lets the timer pass the delay before it spawns
SpawnStep_late(g, x) ==
  LET g1 == [g EXCEPT !.enemy_spawn_timer = g.enemy_spawn_timer + 1]
  IN IF g1.enemy_spawn_timer > enemy_spawn_delay
     THEN [spawn_enemy(g1, x) EXCEPT !.enemy_spawn_timer = 0]
     ELSE g1

SpawnStep(g, x) ==
  LET g1 == [g EXCEPT !.enemy_spawn_timer = g.enemy_spawn_timer + 1]
  IN IF g1.enemy_spawn_timer >= enemy_spawn_delay
     THEN [spawn_enemy(g1, x) EXCEPT !.enemy_spawn_timer = 0]
     ELSE g1

\* update_game, the movement of the bullets and of the enemies
MovementPhase(g) ==
  LET g1 == [g EXCEPT !.bullets = MoveBullets(g.bullets)]
      moved == MoveEnemies(g1.enemies, g1.game_speed_multiplier)
  IN EnemyLoop([g1 EXCEPT !.enemies = moved], moved, 1)

\* update_game after the movement phase, unless end_game has raised in it
spawn_and_collide(m, x) == IF m.crashed THEN m ELSE check_collisions(SpawnStep(m, x))

update_game(g, x) ==
  IF g.game_over THEN g
  ELSE spawn_and_collide(MovementPhase(g), x)

\* keys: the set of arrow keys held down
handle_game_input(g, keys) ==
  IF ~g.game_over /\ g.player # <<>>
  THEN LET x1 == IF "LEFT" \in keys THEN move_left(g.player[1]) ELSE g.player[1]
           x2 == IF "RIGHT" \in keys THEN move_right(x1) ELSE x1
       IN [g EXCEPT !.player = <<x2>>]
  ELSE g

\* ------------------------------------------------------------------------
\* Event handlers
\* ------------------------------------------------------------------------
\* event.unicode of a key: a named key of no printable character, the space
\* bar, Shift (the empty text) or the character itself
NamedKeys == {"RETURN", "BACKSPACE", "ESCAPE"}
Unicode(key) == CASE key = "SPACE" -> " " [] key = "SHIFT" -> "" [] OTHER -> key
\* str.isprintable(): true of the empty text, false of control characters
IsPrintable(key) == key \notin NamedKeys

\* a comparison that accepts every non-empty beginning of the password
PasswordBeginningAccepted(input) == input # <<>> /\ IsPrefix(input, ADMIN_PASSWORD)

\* the credential comparison of PASSWORD_ENTRY
PasswordAccepted(input) == input = ADMIN_PASSWORD

\* handle_events, KEYDOWN
handle_keydown(g, key) ==
  IF g.state = "PASSWORD_ENTRY" THEN
    IF key = "RETURN" THEN
      IF PasswordAccepted(g.password_input)
      THEN [clear_all_leaderboards(g) EXCEPT !.password_input = <<>>,
                                             !.password_error = "",
                                             !.state = "LEADERBOARD"]
      ELSE [g EXCEPT !.password_error = "Incorrect password!"]
    ELSE IF key = "BACKSPACE" THEN
      [g EXCEPT !.password_input = DropLast(g.password_input), !.password_error = ""]
    ELSE IF key = "ESCAPE" THEN
      [g EXCEPT !.password_input = <<>>, !.password_error = "", !.state = "LEADERBOARD"]
    ELSE IF Len(g.password_input) < PASSWORD_LIMIT /\ IsPrintable(key) THEN
      [g EXCEPT !.password_input =
                  g.password_input \o (IF Unicode(key) = "" THEN <<>> ELSE <<Unicode(key)>>),
                !.password_error = ""]
    ELSE g
  ELSE IF g.state = "NAME_ENTRY" THEN
    IF key = "RETURN" THEN
      LET v == validate_name(g, g.player_name)
      IN IF v[1]
         THEN [add_to_leaderboard(g, g.player_name, g.score, g.difficulty)
                 EXCEPT !.state = "GAME_OVER"]
         ELSE [g EXCEPT !.name_error_message = v[2]]
    ELSE IF key = "BACKSPACE" THEN
      [g EXCEPT !.player_name = DropLast(g.player_name), !.name_error_message = ""]
    ELSE IF Len(g.player_name) < NAME_LIMIT /\ IsPrintable(key) THEN
      [g EXCEPT !.player_name = g.player_name \o Upper(Unicode(key)),
                !.name_error_message = ""]
    ELSE g
  ELSE IF key = "ESCAPE" /\ g.state = "PLAYING" /\ ~g.game_over THEN
    [g EXCEPT !.paused = ~g.paused]
  ELSE IF key = "SPACE" /\ g.state = "PLAYING" /\ ~g.game_over /\ ~g.paused THEN
    shoot_bullet(g)
  ELSE g

\* Slider: the two volume sliders of SETTINGS, whose tracks have the same
\* left edge and width.  What the code holds in floats (a slider's value,
\* the two volumes) is held in fixed point, Scale units to 1, which is exact
\* for every pointer offset; min_val and max_val are the integers given.
SLIDER_WIDTH == 400
SLIDER_MIN == 0
SLIDER_MAX == 100
Scale == SLIDER_WIDTH * 100
SFX_VOLUME == Scale \div 2
MUSIC_VOLUME == Scale \div 5
Slider(initial_val) ==
  [min_val |-> SLIDER_MIN, max_val |-> SLIDER_MAX,
   value |-> initial_val, dragging |-> FALSE, was_dragging |-> FALSE]

get_value(s) == s.value \div 100

Smaller(a, b) == IF a <= b THEN a ELSE b
Greater(a, b) == IF a >= b THEN a ELSE b

\* a slider whose value follows the pointer whether or not it is dragged
Slider_handle_event_loose(s, type, on, x) ==
  CASE type = "MOUSEBUTTONDOWN" ->
         <<IF on THEN [s EXCEPT !.dragging = TRUE, !.was_dragging = TRUE] ELSE s, FALSE>>
    [] type = "MOUSEBUTTONUP" ->
         <<[s EXCEPT !.dragging = FALSE, !.was_dragging = FALSE], s.was_dragging>>
    [] type = "MOUSEMOTION" ->
         <<[s EXCEPT !.value =
              Greater(s.min_val * Scale,
                      Smaller(s.max_val * Scale, ((x * Scale) \div SLIDER_WIDTH) * s.max_val))],
           FALSE>>
    [] OTHER -> <<s, FALSE>>

\* a slider that reports every mouse-up
Slider_handle_event_eager(s, type, on, x) ==
  CASE type = "MOUSEBUTTONDOWN" ->
         <<IF on THEN [s EXCEPT !.dragging = TRUE, !.was_dragging = TRUE] ELSE s, FALSE>>
    [] type = "MOUSEBUTTONUP" ->
         <<[s EXCEPT !.dragging = FALSE, !.was_dragging = FALSE], TRUE>>
    [] type = "MOUSEMOTION" /\ s.dragging ->
         <<[s EXCEPT !.value =
              Greater(s.min_val * Scale,
                      Smaller(s.max_val * Scale, ((x * Scale) \div SLIDER_WIDTH) * s.max_val))],
           FALSE>>
    [] OTHER -> <<s, FALSE>>

\* Slider.handle_event: on says whether the pointer is on the handle or on
\* the track, x is the pointer's offset from the left edge of the track; the
\* result is the pair of the slider and the value returned
Slider_handle_event(s, type, on, x) ==
  CASE type = "MOUSEBUTTONDOWN" ->
         <<IF on THEN [s EXCEPT !.dragging = TRUE, !.was_dragging = TRUE] ELSE s, FALSE>>
    [] type = "MOUSEBUTTONUP" ->
         <<[s EXCEPT !.dragging = FALSE, !.was_dragging = FALSE], s.was_dragging>>
    [] type = "MOUSEMOTION" /\ s.dragging ->
         <<[s EXCEPT !.value =
              Greater(s.min_val * Scale,
                      Smaller(s.max_val * Scale, ((x * Scale) \div SLIDER_WIDTH) * s.max_val))],
           FALSE>>
    [] OTHER -> <<s, FALSE>>

OnSfx(w) == w \in {"sfx_track", "sfx_handle"}
OnMusic(w) == w \in {"music_track", "music_handle"}

\* handle_events, the part that follows the dispatch of every event while
\* the screen is SETTINGS: both sliders see the event, and the volumes are
\* read back from them.  pressed is a record kept beside the program's
\* state: the sliders to which a mouse-down on their handle or track has
\* been handed and no mouse-up since.
handle_sliders(g, type, w, x) ==
  IF g.state # "SETTINGS" THEN g
  ELSE LET sfx == Slider_handle_event(g.sfx_slider, type, OnSfx(w), x)[1]
           music == Slider_handle_event(g.music_slider, type, OnMusic(w), x)[1]
       IN [g EXCEPT !.sfx_slider = sfx,
                    !.music_slider = music,
                    !.sfx_volume = get_value(sfx),
                    !.music_volume = get_value(music),
                    !.pressed = CASE type = "MOUSEBUTTONDOWN" ->
                                       g.pressed \cup (IF OnSfx(w) THEN {"sfx"} ELSE {})
                                                 \cup (IF OnMusic(w) THEN {"music"} ELSE {})
                                  [] type = "MOUSEBUTTONUP" -> {}
                                  [] OTHER -> g.pressed]

\* the sounds that part asks for: the test sound, when the SFX slider
\* reports its release
test_sounds(g, type, w, x) ==
  IF g.state = "SETTINGS" /\ Slider_handle_event(g.sfx_slider, type, OnSfx(w), x)[2]
  THEN IF g.test_sound_type = "laser" THEN <<"laser">>
       ELSE IF g.test_sound_type = "explosion" THEN <<"explosion">>
       ELSE <<>>
  ELSE <<>>

\* Dropdown.handle_click of the test-sound dropdown; the result is the pair
\* of the game with the dropdown's new state and the value returned.  The
\* option rectangles are those of the last draw, so an option is under the
\* pointer only while the dropdown is open.
DropdownOptions == <<"Laser", "Explosion">>
Lower(option) == IF option = "Laser" THEN "laser" ELSE "explosion"
\* a dropdown that stays open when the click is outside of it
Dropdown_handle_click_sticky(g, w) ==
  IF w = "dropdown" THEN <<[g EXCEPT !.dropdown_open = ~g.dropdown_open], FALSE>>
  ELSE IF g.dropdown_open /\ w \in {"option_1", "option_2"}
  THEN <<[g EXCEPT !.dropdown_index = IF w = "option_1" THEN 1 ELSE 2,
                   !.dropdown_open = FALSE], TRUE>>
  ELSE <<g, FALSE>>
\* a dropdown that selects the option clicked without reporting it
Dropdown_handle_click_silent(g, w) ==
  IF w = "dropdown" THEN <<[g EXCEPT !.dropdown_open = ~g.dropdown_open], FALSE>>
  ELSE IF g.dropdown_open THEN
    IF w \in {"option_1", "option_2"}
    THEN <<[g EXCEPT !.dropdown_index = IF w = "option_1" THEN 1 ELSE 2,
                     !.dropdown_open = FALSE], FALSE>>
    ELSE <<[g EXCEPT !.dropdown_open = FALSE], FALSE>>
  ELSE <<g, FALSE>>
Dropdown_handle_click(g, w) ==
  IF w = "dropdown" THEN <<[g EXCEPT !.dropdown_open = ~g.dropdown_open], FALSE>>
  ELSE IF g.dropdown_open THEN
    IF w \in {"option_1", "option_2"}
    THEN <<[g EXCEPT !.dropdown_index = IF w = "option_1" THEN 1 ELSE 2,
                     !.dropdown_open = FALSE], TRUE>>
    ELSE <<[g EXCEPT !.dropdown_open = FALSE], FALSE>>
  ELSE <<g, FALSE>>

toggle_fullscreen(g) == [g EXCEPT !.fullscreen = ~g.fullscreen]

\* a pause menu whose QUIT TO MENU also resets the tables
handle_pause_click_resetting(g, w) ==
  CASE w = "resume" -> [g EXCEPT !.paused = FALSE]
    [] w = "settings" -> [g EXCEPT !.previous_state = "PLAYING", !.state = "SETTINGS"]
    [] w = "menu" -> play_music([clear_all_leaderboards(g) EXCEPT !.state = "MAIN_MENU", !.paused = FALSE], "menu")
    [] OTHER -> g

\* a pause menu whose QUIT TO MENU leaves the pause on
handle_pause_click_still_paused(g, w) ==
  CASE w = "resume" -> [g EXCEPT !.paused = FALSE]
    [] w = "settings" -> [g EXCEPT !.previous_state = "PLAYING", !.state = "SETTINGS"]
    [] w = "menu" -> play_music([g EXCEPT !.state = "MAIN_MENU"], "menu")
    [] OTHER -> g

\* a pause menu whose SETTINGS does not record where to return
handle_pause_click_unrecorded(g, w) ==
  CASE w = "resume" -> [g EXCEPT !.paused = FALSE]
    [] w = "settings" -> [g EXCEPT !.state = "SETTINGS"]
    [] w = "menu" -> play_music([g EXCEPT !.state = "MAIN_MENU", !.paused = FALSE], "menu")
    [] OTHER -> g

\* the ship buttons of CHARACTER_SELECT and the image file of each
CharacterFile ==
  [w \in {"ship", "ship_2", "ship_3"} |->
     CASE w = "ship" -> "player.png"
       [] w = "ship_2" -> "player2.PNG"
       [] OTHER -> "player3.png"]

Ships == DOMAIN CharacterFile

\* a click on a ship button: the ship is selected and the session starts
select_character(g, w) == start_game([g EXCEPT !.selected_character = CharacterFile[w]])

\* a leaderboard tab that also sets the difficulty to play
select_leaderboard_tab_retuning(g, diff) ==
  [g EXCEPT !.active_leaderboard = diff, !.difficulty = diff]

\* a click on a tab of the LEADERBOARD screen
select_leaderboard_tab(g, diff) == [g EXCEPT !.active_leaderboard = diff]

\* a CANCEL button that leaves what was typed
cancel_password_click_keeping(g) == [g EXCEPT !.state = "LEADERBOARD"]

\* a click on CANCEL in PASSWORD_ENTRY
cancel_password_click(g) ==
  [g EXCEPT !.password_input = <<>>, !.password_error = "", !.state = "LEADERBOARD"]

\* handle_pause_click; w names the widget under the pointer
handle_pause_click(g, w) ==
  CASE w = "resume" -> [g EXCEPT !.paused = FALSE]
    [] w = "settings" -> [g EXCEPT !.previous_state = "PLAYING", !.state = "SETTINGS"]
    [] w = "menu" -> play_music([g EXCEPT !.state = "MAIN_MENU", !.paused = FALSE], "menu")
    [] OTHER -> g

\* handle_mouse_click; w names the widget under the pointer
handle_mouse_click(g, w) ==
  CASE g.state = "MAIN_MENU" ->
         (CASE w = "start" -> [g EXCEPT !.state = "DIFFICULTY_SELECT"]
            [] w = "leaderboard" -> [g EXCEPT !.state = "LEADERBOARD"]
            [] w = "settings" -> [g EXCEPT !.state = "SETTINGS"]
            [] w = "quit" -> [g EXCEPT !.state = "QUIT_CONFIRM"]
            [] OTHER -> g)
    [] g.state = "CHARACTER_SELECT" ->
         (CASE w = "back" -> [g EXCEPT !.state = "DIFFICULTY_SELECT"]
            [] w \in Ships -> select_character(g, w)
            [] OTHER -> g)
    [] g.state = "DIFFICULTY_SELECT" ->
         (CASE w = "back" -> [g EXCEPT !.state = "MAIN_MENU"]
            [] w \in Difficulties -> [g EXCEPT !.difficulty = w, !.state = "CHARACTER_SELECT"]
            [] OTHER -> g)
    [] g.state = "LEADERBOARD" ->
         (CASE w = "back" -> [g EXCEPT !.state = "MAIN_MENU"]
            [] w = "clear" -> [g EXCEPT !.password_input = <<>>,
                                        !.password_error = "",
                                        !.state = "PASSWORD_ENTRY"]
            [] w \in Difficulties -> select_leaderboard_tab(g, w)
            [] OTHER -> g)
    [] g.state = "NAME_ENTRY" ->
         (CASE w = "submit" ->
                 LET v == validate_name(g, g.player_name)
                 IN IF v[1]
                    THEN [add_to_leaderboard(g, g.player_name, g.score, g.difficulty)
                            EXCEPT !.state = "GAME_OVER"]
                    ELSE [g EXCEPT !.name_error_message = v[2]]
            [] OTHER -> g)
    [] g.state = "PASSWORD_ENTRY" ->
         (CASE w = "submit" ->
                 IF PasswordAccepted(g.password_input)
                 THEN [clear_all_leaderboards(g) EXCEPT !.password_input = <<>>,
                                                        !.password_error = "",
                                                        !.state = "LEADERBOARD"]
                 ELSE [g EXCEPT !.password_error = "Incorrect password!"]
            [] w = "cancel" -> cancel_password_click(g)
            [] OTHER -> g)
    [] g.state = "SETTINGS" ->
         (CASE w = "back" ->
                 IF g.previous_state = "PLAYING"
                 THEN [g EXCEPT !.state = "PLAYING", !.previous_state = "None"]
                 ELSE [g EXCEPT !.state = "MAIN_MENU"]
            [] w = "fullscreen" -> toggle_fullscreen(g)
            [] OTHER ->
                 LET c == Dropdown_handle_click(g, w)
                 IN IF c[2]
                    THEN [c[1] EXCEPT !.test_sound_type =
                                        Lower(DropdownOptions[c[1].dropdown_index])]
                    ELSE c[1])
    [] g.state = "GAME_OVER" ->
         (CASE w = "restart" -> start_game(g)
            [] w = "menu" -> play_music([g EXCEPT !.state = "MAIN_MENU"], "menu")
            [] OTHER -> g)
    [] g.state = "QUIT_CONFIRM" ->
         (CASE w = "yes" -> [g EXCEPT !.running = FALSE]
            [] w = "no" -> [g EXCEPT !.state = "MAIN_MENU"]
            [] OTHER -> g)
    [] OTHER -> g

\* handle_events: the KEYDOWN events of one frame's queue, in order
RECURSIVE handle_keys(_, _)
handle_keys(g, events) ==
  IF events = <<>> THEN g
  ELSE LET h == handle_keydown(g, Head(events))
       IN IF h.state \in Screens THEN handle_keys(h, Tail(events)) ELSE h

\* handle_events, MOUSEBUTTONDOWN
\* a click chain that compares the selection with the one before the click
settings_click_sounds_heard(g, w) ==
  CASE w = "back" -> <<"click">>
    [] w = "fullscreen" -> <<"click">>
    [] OTHER ->
         LET c == Dropdown_handle_click(g, w)
         IN IF c[2] /\ c[1].dropdown_index # g.dropdown_index
            THEN <<"click">>
            ELSE <<>>

\* handle_mouse_click in SETTINGS: the sounds it asks for
settings_click_sounds(g, w) ==
  CASE w = "back" -> <<"click">>
    [] w = "fullscreen" -> <<"click">>
    [] OTHER ->
         LET c == Dropdown_handle_click(g, w)
         IN IF c[2] /\ c[1].dropdown_index # c[1].dropdown_index
            THEN <<"click">>
            ELSE <<>>

handle_mousebuttondown(g, w) ==
  handle_sliders(IF g.state = "PLAYING" /\ g.paused
                 THEN handle_pause_click(g, w)
                 ELSE handle_mouse_click(g, w),
                 "MOUSEBUTTONDOWN", w, 0)

\* handle_events on a MOUSEBUTTONUP and on a MOUSEMOTION event, the pointer
\* at offset x from the left edge of the sliders' tracks
handle_mousebuttonup(g) == handle_sliders(g, "MOUSEBUTTONUP", "nowhere", 0)
handle_mousemotion(g, x) == handle_sliders(g, "MOUSEMOTION", "nowhere", x)

\* a frame whose update does not look at the pause
run_frame_through_pause(g, keys, x) ==
  IF g.state = "PLAYING"
  THEN [update_game(handle_game_input(g, keys), x) EXCEPT !.ticks = g.ticks + 1]
  ELSE g

\* run: the draw_* of the screen; it looks up the best score of the
\* difficulty or the table of the tab shown
draw(g) ==
  CASE g.state \in {"PLAYING", "GAME_OVER"} ->
         IF HasKey(g.high_scores, g.difficulty) THEN g ELSE Raised(g)
    [] g.state = "LEADERBOARD" ->
         IF HasKey(g.leaderboards, g.active_leaderboard) THEN g ELSE Raised(g)
    [] OTHER -> g

\* run: one frame's update and draw after its events
\* run, the end of a frame: the screen is drawn unless the frame has raised
drawn(h) == IF h.crashed THEN h ELSE draw(h)

run_frame(g, keys, x) ==
  drawn(IF g.state = "PLAYING" /\ ~g.paused
        THEN [update_game(handle_game_input(g, keys), x) EXCEPT !.ticks = g.ticks + 1]
        ELSE g)

\* ------------------------------------------------------------------------
\* State: the fields of the Game object, the two persisted files, two
\* history counters of the session (ticks: the unpaused PLAYING frames since
\* start_game; spawned: the calls of spawn_enemy since start_game) and two
\* counters that bound the exploration (sessions started, shots fired in
\* the session)
\* ------------------------------------------------------------------------
VARIABLES state, running, game_over, paused, score, lives, difficulty,
          game_speed_multiplier, high_scores, leaderboards, player_name,
          name_error_message, password_input, password_error, player,
          bullets, enemies, enemy_spawn_timer, previous_state,
          active_leaderboard, fullscreen, dropdown_open, dropdown_index,
          test_sound_type, crashed, sfx_slider, music_slider, sfx_volume, music_volume, pressed, selected_character, current_music, music_playing,
          hs_file, lb_file, ticks, spawned, sessions, shots

vars == <<state, running, game_over, paused, score, lives, difficulty,
          game_speed_multiplier, high_scores, leaderboards, player_name,
          name_error_message, password_input, password_error, player,
          bullets, enemies, enemy_spawn_timer, previous_state,
          active_leaderboard, fullscreen, dropdown_open, dropdown_index,
          test_sound_type, crashed, sfx_slider, music_slider, sfx_volume, music_volume, pressed, selected_character, current_music, music_playing,
          hs_file, lb_file, ticks, spawned, sessions, shots>>

Self ==
  [state |-> state, running |-> running, game_over |-> game_over,
   paused |-> paused, score |-> score, lives |-> lives,
   difficulty |-> difficulty, game_speed_multiplier |-> game_speed_multiplier,
   high_scores |-> high_scores, leaderboards |-> leaderboards,
   player_name |-> player_name, name_error_message |-> name_error_message,
   password_input |-> password_input, password_error |-> password_error,
   player |-> player, bullets |-> bullets, enemies |-> enemies,
   enemy_spawn_timer |-> enemy_spawn_timer, previous_state |-> previous_state,
   active_leaderboard |-> active_leaderboard, fullscreen |-> fullscreen,
   dropdown_open |-> dropdown_open, dropdown_index |-> dropdown_index,
   test_sound_type |-> test_sound_type, crashed |-> crashed, sfx_slider |-> sfx_slider, music_slider |-> music_slider, sfx_volume |-> sfx_volume, music_volume |-> music_volume, pressed |-> pressed, selected_character |-> selected_character, current_music |-> current_music, music_playing |-> music_playing,
   hs_file |-> hs_file, lb_file |-> lb_file, ticks |-> ticks, spawned |-> spawned]

Becomes(g) ==
  /\ state' = g.state
  /\ running' = g.running
  /\ game_over' = g.game_over
  /\ paused' = g.paused
  /\ score' = g.score
  /\ lives' = g.lives
  /\ difficulty' = g.difficulty
  /\ game_speed_multiplier' = g.game_speed_multiplier
  /\ high_scores' = g.high_scores
  /\ leaderboards' = g.leaderboards
  /\ player_name' = g.player_name
  /\ name_error_message' = g.name_error_message
  /\ password_input' = g.password_input
  /\ password_error' = g.password_error
  /\ player' = g.player
  /\ bullets' = g.bullets
  /\ enemies' = g.enemies
  /\ enemy_spawn_timer' = g.enemy_spawn_timer
  /\ previous_state' = g.previous_state
  /\ active_leaderboard' = g.active_leaderboard
  /\ fullscreen' = g.fullscreen
  /\ dropdown_open' = g.dropdown_open
  /\ dropdown_index' = g.dropdown_index
  /\ test_sound_type' = g.test_sound_type
  /\ crashed' = g.crashed
  /\ sfx_slider' = g.sfx_slider
  /\ music_slider' = g.music_slider
  /\ sfx_volume' = g.sfx_volume
  /\ music_volume' = g.music_volume
  /\ pressed' = g.pressed
  /\ selected_character' = g.selected_character
  /\ current_music' = g.current_music
  /\ music_playing' = g.music_playing
  /\ hs_file' = g.hs_file
  /\ lb_file' = g.lb_file
  /\ ticks' = g.ticks
  /\ spawned' = g.spawned

\* ------------------------------------------------------------------------
\* Inputs explored
\* ------------------------------------------------------------------------
Entry(name, sc) == [name |-> name, score |-> sc]

\* Files left by earlier runs of the program: none at all, or a hard table
\* that is full and a medium table one short of full
SavedLeaderboards ==
  [d \in Difficulties |->
     CASE d = "hard" ->
            <<Entry(<<"P", "1">>, 20),
              Entry(<<"A", "A", "A", "A", "A", "A", "A", "A", "A", "S">>, 20),
              Entry(<<"P", "3">>, 10), Entry(<<"P", "4">>, 10), Entry(<<"P", "0">>, 10),
              Entry(<<"P", "5">>, 10), Entry(<<"P", "6">>, 0), Entry(<<"\\", "P">>, 0),
              Entry(<<"\"", "Q">>, 0), Entry(<<"P", "9">>, 0)>>
       [] d = "medium" ->
            <<Entry(<<"P", "1">>, 30), Entry(<<"P", "2">>, 20), Entry(<<"P", "3">>, 20),
              Entry(<<"P", "4">>, 20), Entry(<<"A">>, 10), Entry(<<"P", "5">>, 10),
              Entry(<<"P", "6">>, 10), Entry(<<"P", "7">>, 10), Entry(<<"P", "8">>, 10)>>
       [] OTHER -> <<>>]

SavedHighScores ==
  [d \in Difficulties |-> CASE d = "hard" -> 20 [] d = "medium" -> 30 [] OTHER -> 0]

InitialFiles ==
  { <<<<>>, <<>>>>,
    <<<<json_dump_high_scores(SavedHighScores)>>, <<json_dump_leaderboards(SavedLeaderboards)>>>> }

\* Texts the exploration types, and every prefix of them
NameTargets == { <<" ">>, <<"A">> }
LongNameTargets ==
  { <<" ">>, <<"B">>, <<"A", "A", "A", "A", "A", "A", "A", "A", "A", "S", "S">> }
PasswordTargets == { ADMIN_PASSWORD \o <<"4">>, <<"A">> }

TextKeys ==
  NamedKeys \cup {"SPACE", "SHIFT", "a", "b", "s", "sharp_s", "A", "d", "m", "i", "n",
                  "1", "2", "3", "4"}

\* the keys and the widgets that can matter on a screen, and one that cannot
ScreenKeys(s) ==
  IF s \in {"NAME_ENTRY", "PASSWORD_ENTRY"} THEN TextKeys
  ELSE {"ESCAPE", "SPACE", "RETURN"}

ScreenWidgets(s, p) ==
  {"nowhere"} \cup
  (CASE s = "PLAYING" -> IF p THEN {"resume", "settings", "menu"} ELSE {"start"}
     [] s = "MAIN_MENU" -> {"start", "leaderboard", "settings", "quit"}
     [] s = "CHARACTER_SELECT" -> {"back", "ship"}
     [] s = "DIFFICULTY_SELECT" -> {"back"} \cup Difficulties
     [] s = "LEADERBOARD" -> {"back", "clear"}
     [] s = "NAME_ENTRY" -> {"submit"}
     [] s = "PASSWORD_ENTRY" -> {"submit", "cancel"}
     [] s = "SETTINGS" -> {"back"}
     [] s = "GAME_OVER" -> {"restart", "menu"}
     [] OTHER -> {"yes", "no"})

\* the texts stay within the texts explored
WithinTargets(g, names) ==
  /\ \E t \in names : IsPrefix(g.player_name, t)
  /\ \E t \in PasswordTargets : IsPrefix(g.password_input, t)

\* value drawn by random.randint in the menu-driven exploration: the column
\* the player starts in
SpawnXs == { PlayerStartX }

\* arrow keys held during a frame of the frame-by-frame exploration
Moves == { {}, {"RIGHT"} }
\* its draws of random.randint: a column beside the player, then its own
SideX == PlayerStartX + 100
DrawnX(n) == IF n < 4 THEN SideX ELSE PlayerStartX

\* ------------------------------------------------------------------------
\* Specification
\* ------------------------------------------------------------------------
\* Game.__init__ with the two files as found
Constructed(f) ==
  [state |-> "MAIN_MENU", running |-> TRUE, game_over |-> FALSE, paused |-> FALSE,
   score |-> 0, lives |-> 5, difficulty |-> "medium", game_speed_multiplier |-> 100,
   high_scores |-> load_high_scores(f[1]), leaderboards |-> load_leaderboards(f[2]),
   player_name |-> <<>>, name_error_message |-> "",
   password_input |-> <<>>, password_error |-> "",
   player |-> <<>>, bullets |-> <<>>, enemies |-> <<>>, enemy_spawn_timer |-> 0,
   previous_state |-> "None", active_leaderboard |-> "medium", fullscreen |-> FALSE,
   dropdown_open |-> FALSE, dropdown_index |-> 1, test_sound_type |-> "laser", crashed |-> FALSE, sfx_slider |-> Slider(SFX_VOLUME * 100), music_slider |-> Slider(MUSIC_VOLUME * 100), sfx_volume |-> SFX_VOLUME, music_volume |-> MUSIC_VOLUME, pressed |-> {}, selected_character |-> "player.png", current_music |-> "menu", music_playing |-> "menu",
   hs_file |-> f[1], lb_file |-> f[2], ticks |-> 0, spawned |-> 0]

Is(g) ==
  /\ state = g.state
  /\ running = g.running
  /\ game_over = g.game_over
  /\ paused = g.paused
  /\ score = g.score
  /\ lives = g.lives
  /\ difficulty = g.difficulty
  /\ game_speed_multiplier = g.game_speed_multiplier
  /\ high_scores = g.high_scores
  /\ leaderboards = g.leaderboards
  /\ player_name = g.player_name
  /\ name_error_message = g.name_error_message
  /\ password_input = g.password_input
  /\ password_error = g.password_error
  /\ player = g.player
  /\ bullets = g.bullets
  /\ enemies = g.enemies
  /\ enemy_spawn_timer = g.enemy_spawn_timer
  /\ previous_state = g.previous_state
  /\ active_leaderboard = g.active_leaderboard
  /\ fullscreen = g.fullscreen
  /\ dropdown_open = g.dropdown_open
  /\ dropdown_index = g.dropdown_index
  /\ test_sound_type = g.test_sound_type
  /\ crashed = g.crashed
  /\ sfx_slider = g.sfx_slider
  /\ music_slider = g.music_slider
  /\ sfx_volume = g.sfx_volume
  /\ music_volume = g.music_volume
  /\ pressed = g.pressed
  /\ selected_character = g.selected_character
  /\ current_music = g.current_music
  /\ music_playing = g.music_playing
  /\ hs_file = g.hs_file
  /\ lb_file = g.lb_file
  /\ ticks = g.ticks
  /\ spawned = g.spawned

Init ==
  /\ \E f \in InitialFiles : Is(Constructed(f))
  /\ sessions = 0
  /\ shots = 0

\* n consecutive frames without an event in between
RECURSIVE run_frames(_, _, _, _)
run_frames(g, keys, x, n) ==
  IF n = 0 THEN g
  ELSE LET h == run_frame(g, keys, x)
       IN IF h.state \in Screens /\ ~h.crashed THEN run_frames(h, keys, x, n - 1) ELSE h

\* the rest of the frame of an event that leaves the gameplay stopped: no
\* update, and the draw of the screen (the rest of a frame of the running
\* gameplay is a step of its own)
shown(g) ==
  IF g.crashed \/ (g.state = "PLAYING" /\ ~g.paused) THEN g ELSE draw(g)

\* a KEYDOWN event
KeyDown(key, names) ==
  /\ running /\ ~crashed
  /\ LET g == handle_keydown(Self, key)
         fires == key = "SPACE" /\ state = "PLAYING" /\ ~game_over /\ ~paused
     IN /\ WithinTargets(g, names)
        /\ fires => shots < MaxShots
        /\ Becomes(shown(g))
        /\ shots' = IF fires THEN shots + 1 ELSE shots
  /\ UNCHANGED sessions

\* a MOUSEBUTTONDOWN event with the pointer on widget w
MouseButtonDown(w) ==
  /\ running /\ ~crashed
  /\ LET g == handle_mousebuttondown(Self, w)
         starts == \/ state = "CHARACTER_SELECT" /\ w \in Ships
                   \/ state = "GAME_OVER" /\ w = "restart"
     IN /\ Becomes(shown(g))
        /\ sessions' = IF starts /\ sessions <= MaxSessions THEN sessions + 1 ELSE sessions
        /\ shots' = IF starts THEN 0 ELSE shots

\* one frame of gameplay: handle_game_input and update_game
Tick(keys, x) ==
  /\ running /\ ~crashed
  /\ state = "PLAYING"
  /\ ~paused
  /\ sessions <= MaxSessions
  /\ Becomes(run_frame(Self, keys, x))
  /\ UNCHANGED <<sessions, shots>>

\* one spawn period of gameplay with the player idle
Frames(x) ==
  /\ running /\ ~crashed
  /\ state = "PLAYING"
  /\ ~paused
  /\ sessions <= MaxSessions
  /\ Becomes(run_frames(Self, {}, x, enemy_spawn_delay))
  /\ UNCHANGED <<sessions, shots>>

Next ==
  \/ \E key \in ScreenKeys(state) : KeyDown(key, NameTargets)
  \/ \E w \in ScreenWidgets(state, paused) : MouseButtonDown(w)
  \/ \E x \in SpawnXs : Frames(x)

Spec == Init /\ [][Next]_vars

\* The frame-by-frame exploration starts late in a session on hard: the
\* session was started from the menu and the player has been idle since,
\* with two lives lost to enemies that passed the bottom edge.
\* on easy every enemy is drawn in the column beside the player
IdleX(g) ==
  IF g.difficulty = "easy" THEN SideX
  ELSE DrawnX(Len(g.enemies) + (StartLives(g.difficulty) - g.lives))

RECURSIVE idle_frames(_, _)
idle_frames(g, n) ==
  IF n = 0 THEN g
  ELSE LET h == run_frame(g, {}, IdleX(g))
       IN IF h.state \in Screens THEN idle_frames(h, n - 1) ELSE h

RECURSIVE idle_periods(_, _)
idle_periods(g, k) ==
  IF k = 0 THEN g
  ELSE LET h == idle_frames(g, enemy_spawn_delay)
       IN IF h.state \in Screens THEN idle_periods(h, k - 1) ELSE h

Started(f, d) ==
  LET g1 == handle_mousebuttondown(Constructed(f), "start")
      g2 == handle_mousebuttondown(g1, d)
  IN handle_mousebuttondown(g2, "ship")

LateInSession(f) == idle_frames(idle_periods(Started(f, "hard"), 8), 27)

InitPlay ==
  /\ \E f \in InitialFiles : Is(LateInSession(f))
  /\ sessions = MaxSessions
  /\ shots = 0

\* the session is followed to its end and through NAME_ENTRY and GAME_OVER,
\* not back into the menus
NextPlay ==
  \/ \E key \in ScreenKeys(state) : KeyDown(key, LongNameTargets)
  \/ \E w \in ScreenWidgets(state, paused) \ {"menu"} : MouseButtonDown(w)
  \/ \E keys \in Moves : Tick(keys, DrawnX(99))

SpecPlay == InitPlay /\ [][NextPlay]_vars

\* The frames of the end of a session on easy, with the arrow keys, the
\* pause and SETTINGS opened from it: the session was left idle until four
\* enemies of the column beside the player had passed the bottom and the
\* fifth is about to.
LateOnEasy(f) == idle_frames(idle_periods(Started(f, "easy"), 11), 32)

InitFly ==
  /\ \E f \in InitialFiles : Is(LateOnEasy(f))
  /\ sessions = MaxSessions
  /\ shots = 0

PauseWidgets(s, p) ==
  CASE s = "PLAYING" /\ p -> {"resume", "settings"}
    [] s = "SETTINGS" -> {"back"}
    [] OTHER -> {}

NextFly ==
  \/ \E keys \in Moves : Tick(keys, DrawnX(99))
  \/ state = "PLAYING" /\ KeyDown("ESCAPE", NameTargets)
  \/ \E w \in PauseWidgets(state, paused) : MouseButtonDown(w)

SpecFly == InitFly /\ [][NextFly]_vars

\* The exploration of the shell starts at the same point of the session and
\* follows it with the player idle, through every screen, with every widget
\* of LEADERBOARD and SETTINGS under the pointer as well.
ShellWidgets(s, p) ==
  ScreenWidgets(s, p) \cup
  (CASE s = "LEADERBOARD" -> Difficulties
     [] s = "SETTINGS" -> {"fullscreen", "dropdown", "option_1", "option_2"}
     [] s = "CHARACTER_SELECT" -> {"ship_2"}
     [] OTHER -> {})

ShellKeys(s) ==
  CASE s = "PASSWORD_ENTRY" -> {ADMIN_PASSWORD, <<"A">>, <<"RETURN">>, <<"ESCAPE">>}
    [] s = "NAME_ENTRY" -> {<<"A">>, <<"BACKSPACE">>, <<"RETURN">>}
    [] OTHER -> {<<"ESCAPE">>, <<"SPACE">>, <<"ESCAPE", "SPACE">>}

\* the KEYDOWN events of one frame
KeysDown(events) ==
  /\ running /\ ~crashed
  /\ LET g == handle_keys(Self, events)
         fired == Len(g.bullets) - Len(bullets)
     IN /\ WithinTargets(g, NameTargets)
        /\ shots + fired <= MaxShots
        /\ Becomes(shown(g))
        /\ shots' = shots + fired
  /\ UNCHANGED sessions

NextShell ==
  \/ \E events \in ShellKeys(state) : KeysDown(events)
  \/ \E w \in ShellWidgets(state, paused) : MouseButtonDown(w)
  \/ Tick({}, DrawnX(99))

\* two frames before the session's last enemy passes the bottom edge, with
\* the player idle throughout or with one bullet fired on the way that has
\* destroyed an enemy
LateWithKill(f) ==
  LET g == handle_keydown(idle_periods(Started(f, "hard"), 7), "SPACE")
  IN idle_frames(idle_periods(g, 1), 39)

LateSessions(f) == { idle_frames(LateInSession(f), 12), LateWithKill(f) }

InitShell ==
  /\ \E f \in InitialFiles : \E g \in LateSessions(f) : Is(g)
  /\ sessions = MaxSessions
  /\ shots = 0

SpecShell == InitShell /\ [][NextShell]_vars

\* A session on medium or on hard from start_game in which the frames follow one another, the
\* game is never paused and no bullet is fired: the player stays or moves
\* aside, the enemies fall in the player's starting column.  The loop of run
\* calls update_game in every frame while the screen is PLAYING and the game
\* is not paused, hence the fairness of the tick.
InitEnds ==
  /\ \E f \in InitialFiles : \E d \in {"medium", "hard"} : Is(Started(f, d))
  /\ sessions = MaxSessions
  /\ shots = 0

NextEnds == \E keys \in Moves : Tick(keys, DrawnX(99))

\* a frame of run that calls update_game: the condition of Tick, and the
\* count of the session's ticks goes up by one
Ticked ==
  /\ running /\ ~crashed
  /\ state = "PLAYING"
  /\ ~paused
  /\ sessions <= MaxSessions
  /\ ticks' = ticks + 1

SpecEnds == InitEnds /\ [][NextEnds]_vars /\ WF_ticks(Ticked)

\* The LEADERBOARD and PASSWORD_ENTRY screens from the main menu, with a
\* text typed into the password box that is one character longer than the
\* box takes, as well as the password and what follows it.
LongPassword == [i \in 1..(PASSWORD_LIMIT + 1) |-> "A"]

PasswordKeyDown(key) ==
  /\ running /\ ~crashed
  /\ LET g == handle_keydown(Self, key)
     IN /\ \E t \in PasswordTargets \cup {LongPassword} : IsPrefix(g.password_input, t)
        /\ Becomes(shown(g))
  /\ UNCHANGED <<sessions, shots>>

PasswordWidgets(s) ==
  CASE s = "MAIN_MENU" -> {"leaderboard", "nowhere"}
    [] s = "LEADERBOARD" -> {"back", "clear", "hard"}
    [] s = "PASSWORD_ENTRY" -> {"submit", "cancel", "nowhere"}
    [] OTHER -> {}

InitPassword ==
  /\ \E f \in InitialFiles : Is(Constructed(f))
  /\ sessions = 0
  /\ shots = 0

NextPassword ==
  \/ \E key \in TextKeys : PasswordKeyDown(key)
  \/ \E w \in PasswordWidgets(state) : MouseButtonDown(w)

SpecPassword == InitPassword /\ [][NextPassword]_vars

\* The program started on files of every kind: absent, left by an earlier
\* run, not to be opened, cut short or empty, and holding a JSON document
\* that is not the dictionary of the three difficulties; one of the two files
\* at a time.  The window can be closed at any time.
Cut(text) == DropLast(text)
HighScoreFiles ==
  { <<>>,
    <<json_dump_high_scores(SavedHighScores)>>,
    <<json_dump_high_scores(SavedHighScores), "denied">>,
    <<Cut(json_dump_high_scores(SavedHighScores))>>,
    <<<<>>>>,
    <<<<Punct("{"), Punct("}")>>>>,
    <<<<Punct("{"), String(KeyChars("easy")), Punct(":"), Number(10), Punct("}")>>>> }
LeaderboardFiles ==
  { <<>>,
    <<json_dump_leaderboards(SavedLeaderboards)>>,
    <<json_dump_leaderboards(SavedLeaderboards), "denied">>,
    <<Cut(json_dump_leaderboards(SavedLeaderboards))>>,
    <<<<>>>>,
    <<<<Punct("["), Punct("]")>>>>,
    <<<<Punct("{"), String(KeyChars("easy")), Punct(":"), Punct("["), Punct("]"), Punct(","),
        String(KeyChars("medium")), Punct(":"), Punct("["), Punct("]"), Punct("}")>>>> }
FilesFound ==
  {<<h, <<>>>> : h \in HighScoreFiles} \cup {<<<<>>, l>> : l \in LeaderboardFiles}

\* handle_events, QUIT: the window is closed
handle_quit(g) == [g EXCEPT !.running = FALSE]

Quit ==
  /\ running /\ ~crashed
  /\ Becomes(handle_quit(Self))
  /\ UNCHANGED <<sessions, shots>>

InitFiles ==
  /\ \E f \in FilesFound : Is(Constructed(f))
  /\ sessions = 0
  /\ shots = 0

NextFiles ==
  \/ \E events \in ShellKeys(state) : KeysDown(events)
  \/ \E w \in ScreenWidgets(state, paused) : MouseButtonDown(w)
  \/ \E x \in SpawnXs : Frames(x)
  \/ Quit

SpecFiles == InitFiles /\ [][NextFiles]_vars

\* The settings screen: from construction the menus lead to SETTINGS, where
\* the pointer presses, moves and releases on every widget and on the
\* sliders' handles and tracks.  PointerXs are offsets of the pointer from
\* the left edge of the tracks: left of it, its two ends, inside, right of it.
PointerXs == {0 - 30, 0, 130, 400, 430}
SliderRegions == {"sfx_track", "sfx_handle", "music_track", "music_handle"}
SettingsWidgets(s, p) ==
  CASE s = "MAIN_MENU" -> {"settings", "nowhere"}
    [] s = "SETTINGS" -> ShellWidgets(s, p) \cup SliderRegions
    [] OTHER -> {}

MouseButtonUp ==
  /\ running /\ ~crashed
  /\ Becomes(shown(handle_mousebuttonup(Self)))
  /\ UNCHANGED <<sessions, shots>>

MouseMotion(x) ==
  /\ running /\ ~crashed
  /\ Becomes(shown(handle_mousemotion(Self, x)))
  /\ UNCHANGED <<sessions, shots>>

InitSettings ==
  /\ \E f \in InitialFiles : Is(Constructed(f))
  /\ sessions = 0
  /\ shots = 0

NextSettings ==
  \/ \E w \in SettingsWidgets(state, paused) : MouseButtonDown(w)
  \/ MouseButtonUp
  \/ \E x \in PointerXs : MouseMotion(x)

SpecSettings == InitSettings /\ [][NextSettings]_vars

\* ------------------------------------------------------------------------
\* Properties
\* ------------------------------------------------------------------------
Tables == <<high_scores, leaderboards, hs_file, lb_file>>
TablesOf(g) == <<g.high_scores, g.leaderboards, g.hs_file, g.lb_file>>

\* the two ways to submit on a text screen
Submitted == {handle_keydown(Self, "RETURN"), handle_mousebuttondown(Self, "submit")}

\* C1: lives is never negative in any reachable state.
LivesNeverNegative == lives >= 0

SortedAndCapped(lb) ==
  /\ Len(lb) <= LEADERBOARD_SIZE
  /\ \A i, j \in 1..Len(lb) : i < j => lb[i].score >= lb[j].score

InsertedNames == { <<"Z">>, <<"A", "A", "A", "A", "A", "A", "A", "A", "A", "S", "S">> }
InsertedScores == {0, 15, 100}

\* C2: every difficulty's leaderboard is sorted by score, highest first, and
\* has at most 10 entries, and add_to_leaderboard re-establishes both for
\* any name and score it is given.
LeaderboardsSortedAndCapped ==
  /\ \A d \in Difficulties : SortedAndCapped(leaderboards[d])
  /\ \A d \in Difficulties, n \in InsertedNames, sc \in InsertedScores :
       SortedAndCapped(add_to_leaderboard(Self, n, sc, d).leaderboards[d])

\* an entry was inserted into the full hard table of the saved files
InsertedIntoFullTable ==
  /\ state = "GAME_OVER"
  /\ Len(leaderboards["hard"]) = LEADERBOARD_SIZE
  /\ leaderboards["hard"] # SavedLeaderboards["hard"]
  /\ \E i \in 1..LEADERBOARD_SIZE : leaderboards["hard"][i].name = <<"A">>

\* a name that is to be refused: empty, blank, or already in the table of
\* the session's difficulty when compared ignoring case
Rejectable(name) ==
  \/ name = <<>>
  \/ \A i \in 1..Len(name) : name[i] = " "
  \/ \E i \in 1..Len(leaderboards[difficulty]) :
       UpperText(leaderboards[difficulty][i].name) = UpperText(name)

\* C3: in NAME_ENTRY, submitting an empty, blank or already taken name keeps
\* the screen, sets an error message and leaves tables and files unchanged.
InvalidNameRejected ==
  (state = "NAME_ENTRY" /\ Rejectable(player_name)) =>
    \A g \in Submitted :
      /\ g.state = "NAME_ENTRY"
      /\ g.name_error_message # ""
      /\ TablesOf(g) = Tables

\* a taken name has been submitted and refused
TakenNameRefused ==
  /\ state = "NAME_ENTRY"
  /\ name_error_message = "Username already taken!"
  /\ player_name = <<"A">>
  /\ Tables = <<SavedHighScores, SavedLeaderboards,
               <<json_dump_high_scores(SavedHighScores)>>,
               <<json_dump_leaderboards(SavedLeaderboards)>>>>

\* C4: in NAME_ENTRY, submitting a name that passes validation leaves an
\* entry with the submitted name and the session's score in the table of the
\* session's difficulty, persisted, and the screen at GAME_OVER.
ValidNameRecorded ==
  (state = "NAME_ENTRY" /\ validate_name(Self, player_name)[1]) =>
    \A g \in Submitted :
      /\ \E i \in 1..Len(g.leaderboards[difficulty]) :
           g.leaderboards[difficulty][i] = Entry(player_name, score)
      /\ g.lb_file = <<json_dump_leaderboards(g.leaderboards)>>
      /\ g.state = "GAME_OVER"

\* C5: within one difficulty the stored names are pairwise distinct when
\* compared ignoring case, and no stored name is longer than 10 characters.
NamesDistinctAndShort ==
  \A d \in Difficulties :
    /\ \A i, j \in 1..Len(leaderboards[d]) :
         i # j => UpperText(leaderboards[d][i].name) # UpperText(leaderboards[d][j].name)
    /\ \A i \in 1..Len(leaderboards[d]) : Len(leaderboards[d][i].name) <= NAME_LIMIT

NoDecrease == \A d \in Difficulties : high_scores'[d] >= high_scores[d]

\* C6 as stated: no step of the program lowers a stored best score.
HighScoresNeverDecrease == [][NoDecrease]_vars

\* C6: a stored best score is lowered only by the reset that a correct
\* password in PASSWORD_ENTRY performs, which sets every best score to 0.
HighScoresDecreaseOnlyByReset ==
  [][NoDecrease \/ (/\ state = "PASSWORD_ENTRY"
                    /\ password_input = ADMIN_PASSWORD
                    /\ state' = "LEADERBOARD"
                    /\ high_scores' = DefaultHighScores)]_vars

\* a session has ended with a new best score on easy
BestScoreRaised ==
  /\ game_over
  /\ difficulty = "easy"
  /\ score = POINTS
  /\ high_scores["easy"] = POINTS
  /\ hs_file = <<json_dump_high_scores(high_scores)>>

\* C7: when the tick that ended the game has completed, the stored best
\* score of the difficulty is at least the session's score.
FinalScoreWithinBest ==
  (game_over /\ state \in {"NAME_ENTRY", "GAME_OVER"}) =>
    high_scores[difficulty] >= score

\* C8: when the tick that ended the session has completed, the screen is
\* NAME_ENTRY exactly if the session's score qualifies for the leaderboard
\* of its difficulty, and GAME_OVER otherwise.
RoutedByQualification ==
  [][(state = "PLAYING" /\ state' \in {"NAME_ENTRY", "GAME_OVER"}) =>
       (state' = "NAME_ENTRY" <=>
          (\/ Len(leaderboards'[difficulty']) < LEADERBOARD_SIZE
           \/ score' > leaderboards'[difficulty'][Len(leaderboards'[difficulty'])].score))]_vars

\* C9: in PASSWORD_ENTRY, submitting "admin123" empties the three
\* leaderboards and zeroes the three best scores, in memory and on file,
\* clears the password input and error, and shows LEADERBOARD.
CorrectPasswordResets ==
  (state = "PASSWORD_ENTRY" /\ password_input = ADMIN_PASSWORD) =>
    \A g \in Submitted :
      /\ g.leaderboards = [d \in Difficulties |-> <<>>]
      /\ g.high_scores = [d \in Difficulties |-> 0]
      /\ g.lb_file = <<json_dump_leaderboards(g.leaderboards)>>
      /\ g.hs_file = <<json_dump_high_scores(g.high_scores)>>
      /\ g.password_input = <<>>
      /\ g.password_error = ""
      /\ g.state = "LEADERBOARD"

\* the saved tables have been reset
TablesReset ==
  /\ state = "LEADERBOARD"
  /\ leaderboards = DefaultLeaderboards
  /\ high_scores = DefaultHighScores
  /\ lb_file = <<json_dump_leaderboards(DefaultLeaderboards)>>
  /\ hs_file = <<json_dump_high_scores(DefaultHighScores)>>
  /\ password_input = <<>>

\* C10: in PASSWORD_ENTRY, submitting anything but "admin123" keeps the
\* screen, sets an error message and leaves tables and files unchanged.
WrongPasswordRefused ==
  (state = "PASSWORD_ENTRY" /\ password_input # ADMIN_PASSWORD) =>
    \A g \in Submitted :
      /\ g.state = "PASSWORD_ENTRY"
      /\ g.password_error # ""
      /\ TablesOf(g) = Tables

\* a prefix of the password has been submitted and refused with tables saved
PrefixRefused ==
  /\ state = "PASSWORD_ENTRY"
  /\ password_error = "Incorrect password!"
  /\ password_input = SubSeq(ADMIN_PASSWORD, 1, 7)
  /\ leaderboards = SavedLeaderboards

Delete(t, i) == SubSeq(t, 1, i - 1) \o SubSeq(t, i + 1, Len(t))

\* the game-over sequence of a tick raised the best score of the session's
\* difficulty and touched nothing else
BestScoreStep ==
  /\ state = "PLAYING" /\ ~paused
  /\ state' \in {"NAME_ENTRY", "GAME_OVER"}
  /\ leaderboards' = leaderboards /\ lb_file' = lb_file
  /\ high_scores'[difficulty] > high_scores[difficulty]
  /\ \A d \in Difficulties \ {difficulty} : high_scores'[d] = high_scores[d]

\* a name submitted in NAME_ENTRY added one entry to the table of the
\* session's difficulty, at most displacing that table's last entry
InsertionStep ==
  /\ state = "NAME_ENTRY" /\ state' = "GAME_OVER"
  /\ high_scores' = high_scores /\ hs_file' = hs_file
  /\ \A d \in Difficulties \ {difficulty} : leaderboards'[d] = leaderboards[d]
  /\ \E i \in 1..Len(leaderboards'[difficulty]) :
       \/ Delete(leaderboards'[difficulty], i) = leaderboards[difficulty]
       \/ /\ Len(leaderboards[difficulty]) = LEADERBOARD_SIZE
          /\ Delete(leaderboards'[difficulty], i) = DropLast(leaderboards[difficulty])

\* the correct password submitted in PASSWORD_ENTRY reset everything
ResetStep ==
  /\ state = "PASSWORD_ENTRY" /\ password_input = ADMIN_PASSWORD
  /\ state' = "LEADERBOARD"
  /\ leaderboards' = [d \in Difficulties |-> <<>>]
  /\ high_scores' = [d \in Difficulties |-> 0]

\* C11: leaderboards, high scores and their files change only by the
\* game-over sequence raising one best score, by a name submission adding
\* one entry, or by the reset a correct password performs; every other
\* event leaves them unchanged.
TablesChangeOnlyByThree ==
  [][Tables' # Tables => (BestScoreStep \/ InsertionStep \/ ResetStep)]_vars

\* a session that was paused, taken through SETTINGS with the fullscreen box
\* ticked, resumed and played to its end has raised the best score and has
\* had its name recorded, the leaderboard tab switched afterwards
RecordedAfterShellEvents ==
  /\ state = "LEADERBOARD"
  /\ fullscreen
  /\ active_leaderboard = "hard"
  /\ high_scores["hard"] = POINTS
  /\ Len(leaderboards["hard"]) = 1
  /\ leaderboards["hard"][1].name = <<"A">>

\* the clicks that start a session on the current screen
StartClicks ==
  CASE state = "CHARACTER_SELECT" -> Ships
    [] state = "GAME_OVER" -> {"restart"}
    [] OTHER -> {}

\* C12: a session started by the ship button of CHARACTER_SELECT or by
\* RESTART in GAME_OVER has the lives and speed of the chosen difficulty
\* (easy 7 / 1.0, medium 5 / 1.08, hard 3 / 1.15) and is fresh: score 0, no
\* bullets, no enemies, spawn timer 0, not paused, not over, screen PLAYING.
StartedFresh ==
  \A w \in StartClicks :
    LET g == handle_mousebuttondown(Self, w)
    IN /\ g.difficulty = difficulty
       /\ difficulty = "easy" => g.lives = 7 /\ g.game_speed_multiplier = 100
       /\ difficulty = "medium" => g.lives = 5 /\ g.game_speed_multiplier = 108
       /\ difficulty = "hard" => g.lives = 3 /\ g.game_speed_multiplier = 115
       /\ g.score = 0
       /\ g.bullets = <<>>
       /\ g.enemies = <<>>
       /\ g.enemy_spawn_timer = 0
       /\ ~g.paused
       /\ ~g.game_over
       /\ g.state = "PLAYING"

\* a second session has been started on easy after a session that scored
RestartedOnEasy ==
  /\ state = "PLAYING"
  /\ sessions = MaxSessions + 1
  /\ difficulty = "easy"
  /\ high_scores["easy"] = POINTS
  /\ lives = 7
  /\ score = 0
  /\ enemies = <<>>
  /\ ticks = 0


\* ------------------------------------------------------------------------
\* Bullets against enemies
\* ------------------------------------------------------------------------
\* the heights a bullet passes through after being fired
BulletYs == {PlayerY - BULLET_SPEED * k : k \in 0..((PlayerY + BULLET_HEIGHT) \div BULLET_SPEED)}

\* the bullet fired from under enemy e that has just reached it (fired from
\* the column of e), if any
Reaching(e) ==
  LET hs == {y \in BulletYs :
               BulletHitsEnemy([x |-> e.x + PLAYER_WIDTH \div 2 - 4, y |-> y], e)}
  IN IF hs = {} THEN {}
     ELSE {[x |-> e.x + PLAYER_WIDTH \div 2 - 4,
            y |-> CHOOSE y \in hs : \A z \in hs : z <= y]}

\* bullets in flight at the start of a pass: one reaching each enemy and one
\* just fired; up to two of them, in either order, the same one twice included
BulletsInFlight ==
  UNION {Reaching(enemies[i]) : i \in 1..Len(enemies)}
    \cup {[x |-> player[1] + PLAYER_WIDTH \div 2 - 4, y |-> PlayerY]}
BulletLists ==
  {<<>>} \cup {<<b>> : b \in BulletsInFlight}
         \cup {<<b, c>> : b \in BulletsInFlight, c \in BulletsInFlight}

EnemiesHit(bs, es) == {i \in 1..Len(es) : \E k \in 1..Len(bs) : BulletHitsEnemy(bs[k], es[i])}
BulletsHitting(bs, es) == {k \in 1..Len(bs) : \E i \in 1..Len(es) : BulletHitsEnemy(bs[k], es[i])}

\* C13: in one collision pass the bullets and enemies removed by the bullet
\* loop are paired one to one: the score rises by 10 for each bullet removed
\* and as many enemies as bullets are removed; a single bullet removes the
\* first enemy of the list that it intersects and nothing else; two bullets
\* on the same enemy remove it once and one bullet stays; no bullet that
\* stays intersects an enemy that stays.
BulletsAndEnemiesPaired ==
  (state = "PLAYING" /\ ~paused /\ player # <<>>) =>
    \A bs \in BulletLists :
      LET g == BulletLoop([Self EXCEPT !.bullets = bs], bs, 1)
          nb == Len(bs) - Len(g.bullets)
          ne == Len(enemies) - Len(g.enemies)
          hit == {i \in 1..Len(enemies) : BulletHitsEnemy(bs[1], enemies[i])}
      IN /\ g.score - score = 10 * nb
         /\ nb = ne
         /\ ne <= Cardinality(EnemiesHit(bs, enemies))
         /\ nb <= Cardinality(BulletsHitting(bs, enemies))
         /\ \A k \in 1..Len(g.bullets) : \A i \in 1..Len(g.enemies) :
              ~BulletHitsEnemy(g.bullets[k], g.enemies[i])
         /\ (Len(bs) = 1 /\ hit # {}) =>
              /\ g.bullets = <<>>
              /\ g.enemies = Delete(enemies, CHOOSE i \in hit : \A j \in hit : i <= j)
         /\ (Len(bs) = 1 /\ hit = {}) => (g.bullets = bs /\ g.enemies = enemies)
         /\ (Len(bs) = 2 /\ Cardinality(EnemiesHit(bs, enemies)) = 1
               /\ Cardinality(BulletsHitting(bs, enemies)) = 2) =>
              (g.bullets = <<bs[2]>> /\ ne = 1)

\* the one bullet fired has removed an enemy in the pass of the last tick
\* of the session, and is removed itself
ShotDown ==
  /\ difficulty = "hard"
  /\ shots = 1
  /\ bullets = <<>>
  /\ score = POINTS
  /\ enemy_spawn_timer = ticks % enemy_spawn_delay
  /\ spawned - Len(enemies) = StartLives("hard") + 1


\* ------------------------------------------------------------------------
\* Enemies past the bottom
\* ------------------------------------------------------------------------
\* C14: in an unpaused tick the movement phase removes exactly the enemies
\* that are past the bottom of the screen after moving and takes one life
\* for each of them; if that brings the lives to 0 the game-over sequence
\* has run and the tick ends on another screen than PLAYING; the enemies not
\* past the bottom stay, in order, and cost nothing.
PastBottomCostsALife ==
  (state = "PLAYING" /\ ~paused) =>
    \A keys \in Moves :
      LET m == MovementPhase(handle_game_input(Self, keys))
          h == run_frame(Self, keys, DrawnX(99))
          moved == [i \in 1..Len(enemies) |->
                      [enemies[i] EXCEPT !.y = @ + 2 * game_speed_multiplier]]
          past == {i \in 1..Len(moved) : moved[i].y > SCREEN_HEIGHT * 100}
      IN /\ m.enemies = SelectSeq(moved, LAMBDA e : e.y <= SCREEN_HEIGHT * 100)
         /\ m.lives = lives - Cardinality(past)
         /\ (m.lives <= 0) => /\ m.game_over
                              /\ h.state \in {"NAME_ENTRY", "GAME_OVER"}
         /\ (past = {}) => (m.lives = lives /\ m.state = "PLAYING" /\ ~m.game_over)

\* the fifth enemy of the session on easy passed the bottom in the last tick
\* and took the fifth life; the session goes on
FifthLifeLost ==
  /\ state = "PLAYING"
  /\ difficulty = "easy"
  /\ lives = StartLives("easy") - 5
  /\ spawned - Len(enemies) = 5
  /\ \A i \in 1..Len(enemies) : enemies[i].y <= SCREEN_HEIGHT * 100
  /\ \E i \in 1..Len(enemies) :
       enemies[i].y + (enemy_spawn_delay - 1) * 2 * game_speed_multiplier > SCREEN_HEIGHT * 100


\* ------------------------------------------------------------------------
\* Enemies against the player
\* ------------------------------------------------------------------------
\* the enemies that intersect the player
Touching(g) ==
  {i \in 1..Len(g.enemies) : g.player # <<>> /\ PlayerHitsEnemy(g.player[1], g.enemies[i])}

\* C15: a collision pass in which k enemies intersect the player removes k
\* enemies and takes k lives, stopping when the game is over.
EveryTouchingEnemyCosts ==
  (state = "PLAYING" /\ ~paused) =>
    \A keys \in Moves :
      LET g == SpawnStep(MovementPhase(handle_game_input(Self, keys)), DrawnX(99))
          h == check_collisions(g)
          k == Cardinality(Touching(g))
      IN ~g.game_over =>
           \/ /\ h.lives = g.lives - k
              /\ Len(h.enemies) = Len(g.enemies) - k
           \/ /\ h.game_over
              /\ h.lives = 0
              /\ Len(h.enemies) = Len(g.enemies) - g.lives


\* ------------------------------------------------------------------------
\* SETTINGS and back
\* ------------------------------------------------------------------------
Session == <<score, lives, player, bullets, enemies, enemy_spawn_timer>>

\* SETTINGS is entered from the pause menu or from MAIN_MENU only, and the
\* screen to return to is recorded exactly when it is the pause menu
EnteredFrom ==
  (state # "SETTINGS" /\ state' = "SETTINGS") =>
     \/ /\ state = "PLAYING" /\ paused
        /\ previous_state' = "PLAYING"
     \/ /\ state = "MAIN_MENU" /\ ~paused
        /\ previous_state' # "PLAYING"

\* in SETTINGS, and on the way in and out, the session and the pause stay
WhileInSettings ==
  (state = "SETTINGS" \/ state' = "SETTINGS") =>
     /\ Session' = Session
     /\ paused' = paused
     /\ (state = "SETTINGS" /\ state' = "SETTINGS") => previous_state' = previous_state

ReturnedTo ==
  (state = "SETTINGS" /\ state' # "SETTINGS") =>
     /\ state' = IF previous_state = "PLAYING" THEN "PLAYING" ELSE "MAIN_MENU"
     /\ previous_state = "PLAYING" => paused'
     /\ previous_state' # "PLAYING"

\* C16: BACK in SETTINGS returns to the paused PLAYING, with the session as
\* it was when SETTINGS was opened, if SETTINGS was opened from the pause
\* menu, and to MAIN_MENU if it was opened from MAIN_MENU; the record of the
\* screen to return to is kept only while SETTINGS opened from the pause
\* menu is shown, so a later visit from MAIN_MENU returns to MAIN_MENU.
SettingsReturnsWhereEntered ==
  /\ [](previous_state = "PLAYING" => (state = "SETTINGS" /\ paused))
  /\ [][EnteredFrom /\ WhileInSettings /\ ReturnedTo]_vars

\* back in the pause menu from a visit to SETTINGS in which the fullscreen
\* box and the test sound were changed
BackInPauseMenu ==
  /\ state = "PLAYING"
  /\ paused
  /\ fullscreen
  /\ test_sound_type = "explosion"
  /\ previous_state = "None"
  /\ enemies # <<>>


\* ------------------------------------------------------------------------
\* Pause
\* ------------------------------------------------------------------------
ArrowKeys == SUBSET {"LEFT", "RIGHT"}

\* on every screen but the unpaused PLAYING a frame updates nothing, SPACE
\* fires nothing and the arrow keys move nothing
FrozenUnlessPlaying ==
  (state # "PLAYING" \/ paused) =>
     /\ \A keys \in ArrowKeys : \A x \in {PlayerStartX, SideX} : run_frame(Self, keys, x) = Self
     /\ state \in {"PLAYING", "SETTINGS"} => handle_keydown(Self, "SPACE") = Self

\* ESC during PLAYING changes the paused flag and nothing else
EscapeTogglesPause ==
  state = "PLAYING" => handle_keydown(Self, "ESCAPE") = [Self EXCEPT !.paused = ~paused]

\* SPACE after ESC in one frame fires nothing, whichever way ESC went
SpaceAfterEscapeNeverFires ==
  state = "PLAYING" => handle_keys(Self, <<"ESCAPE", "SPACE">>).bullets = bullets

\* C17 as stated: the update runs only in the unpaused PLAYING, ESC toggles
\* the pause only, and SPACE after ESC in the same frame fires nothing.
PausedFreezesAndSpaceAfterEscapeIsLost ==
  FrozenUnlessPlaying /\ EscapeTogglesPause /\ SpaceAfterEscapeNeverFires

\* C17: the update runs only in the unpaused PLAYING: while paused, in the
\* pause menu or in SETTINGS opened from it, a frame changes nothing of the
\* session, SPACE fires nothing and the arrow keys move nothing; ESC during
\* PLAYING toggles the pause and nothing else; the events of a frame are
\* applied in order, so SPACE after the ESC that pauses fires nothing and
\* SPACE after the ESC that resumes fires one bullet.
PausedFreezesAndEventsInOrder ==
  /\ FrozenUnlessPlaying
  /\ EscapeTogglesPause
  /\ (state = "PLAYING" /\ ~paused) =>
        handle_keys(Self, <<"ESCAPE", "SPACE">>) = [Self EXCEPT !.paused = TRUE]
  /\ (state = "PLAYING" /\ paused) =>
        handle_keys(Self, <<"ESCAPE", "SPACE">>) = shoot_bullet([Self EXCEPT !.paused = FALSE])

\* SETTINGS opened from the pause menu with the bullet fired in flight
PausedInFlight ==
  /\ state = "SETTINGS"
  /\ paused
  /\ previous_state = "PLAYING"
  /\ shots = 1
  /\ Len(bullets) = 1


\* ------------------------------------------------------------------------
\* Spawning
\* ------------------------------------------------------------------------
\* ticks counts the unpaused PLAYING frames since start_game and spawned the
\* enemies spawned since: one enemy on every 60th tick
OneSpawnEverySixtieth ==
  /\ spawned = ticks \div 60
  /\ enemy_spawn_timer = ticks % 60
  /\ 0 <= enemy_spawn_timer /\ enemy_spawn_timer < 60

\* the enemy is spawned above the screen in the column drawn
SpawnedAtTheTop ==
  (state = "PLAYING" /\ ~paused) =>
    \A keys \in Moves : \A x \in {0, PlayerStartX, SCREEN_WIDTH - ENEMY_WIDTH} :
      LET m == MovementPhase(handle_game_input(Self, keys))
          s == SpawnStep(m, x)
      IN IF (ticks + 1) % 60 = 0
         THEN /\ Len(s.enemies) = Len(m.enemies) + 1
              /\ SubSeq(s.enemies, 1, Len(m.enemies)) = m.enemies
              /\ s.enemies[Len(s.enemies)] = [x |-> x, y |-> -(ENEMY_HEIGHT * 100)]
         ELSE s.enemies = m.enemies

\* the pause and SETTINGS leave the timer alone
TimerStaysWhilePaused ==
  (paused \/ paused' \/ state = "SETTINGS" \/ state' = "SETTINGS") =>
     /\ enemy_spawn_timer' = enemy_spawn_timer
     /\ ticks' = ticks
     /\ spawned' = spawned

\* C18: counting the unpaused PLAYING ticks since start_game, one enemy is
\* spawned on every 60th tick, the first on tick 60, and none on another
\* tick; 0 <= enemy_spawn_timer < 60 after every tick; pausing, resuming and
\* SETTINGS opened from the pause neither reset nor advance the timer; an
\* enemy is spawned at y = -height, in a column of [0, SCREEN_WIDTH - width].
SpawnCadence ==
  /\ [](OneSpawnEverySixtieth /\ SpawnedAtTheTop)
  /\ [](\A i \in 1..Len(enemies) :
          0 <= enemies[i].x /\ enemies[i].x <= SCREEN_WIDTH - ENEMY_WIDTH)
  /\ [][TimerStaysWhilePaused]_vars

\* the twelfth enemy was spawned on tick 720, and the game was paused and
\* SETTINGS opened before the next tick
TwelfthSpawned ==
  /\ state = "SETTINGS"
  /\ paused
  /\ ticks = 12 * 60
  /\ spawned = 12
  /\ enemy_spawn_timer = 0
  /\ enemies[Len(enemies)].y = -(ENEMY_HEIGHT * 100)


\* ------------------------------------------------------------------------
\* Screens
\* ------------------------------------------------------------------------
Edges ==
  [MAIN_MENU |-> {"DIFFICULTY_SELECT", "LEADERBOARD", "SETTINGS", "QUIT_CONFIRM"},
   DIFFICULTY_SELECT |-> {"MAIN_MENU", "CHARACTER_SELECT"},
   CHARACTER_SELECT |-> {"DIFFICULTY_SELECT", "PLAYING"},
   PLAYING |-> {"NAME_ENTRY", "GAME_OVER", "SETTINGS", "MAIN_MENU"},
   SETTINGS |-> {"MAIN_MENU", "PLAYING"},
   LEADERBOARD |-> {"MAIN_MENU", "PASSWORD_ENTRY"},
   PASSWORD_ENTRY |-> {"LEADERBOARD"},
   NAME_ENTRY |-> {"GAME_OVER"},
   GAME_OVER |-> {"PLAYING", "MAIN_MENU"},
   QUIT_CONFIRM |-> {"MAIN_MENU"}]

AlongAnEdge ==
  state' # state =>
    /\ state' \in Edges[state]
    /\ state = "PLAYING" =>
         IF state' \in {"NAME_ENTRY", "GAME_OVER"}
         THEN ~paused /\ ticks' = ticks + 1
         ELSE paused /\ ticks' = ticks

\* the widgets of all the screens
Widgets == UNION {ShellWidgets(s, p) : s \in Screens, p \in BOOLEAN}

ClickWhilePlayingChangesNothing ==
  (state = "PLAYING" /\ ~paused) => \A w \in Widgets : handle_mousebuttondown(Self, w) = Self

ClickOnNothingChangesNothing == handle_mousebuttondown(Self, "nowhere") = Self

\* C19 as stated: the screen is one of the ten, it changes along the listed
\* edges only, and a click on no widget of the screen, or during the
\* unpaused PLAYING, changes nothing.
EdgesAndIdleClicks ==
  /\ [](state \in Screens)
  /\ [][AlongAnEdge]_vars
  /\ [](ClickWhilePlayingChangesNothing /\ ClickOnNothingChangesNothing)

\* C19: the screen is one of the ten and changes along the listed edges
\* only, PLAYING being left for NAME_ENTRY or GAME_OVER by a tick and for
\* SETTINGS or MAIN_MENU by a click in the pause menu; a click during the
\* unpaused PLAYING changes nothing; a click on no widget of the screen
\* changes nothing, except that in SETTINGS it closes the open dropdown.
EdgesAndIdleClicksButDropdown ==
  /\ [](state \in Screens)
  /\ [][AlongAnEdge]_vars
  /\ [](ClickWhilePlayingChangesNothing)
  /\ [](handle_mousebuttondown(Self, "nowhere") =
          IF state = "SETTINGS" /\ dropdown_open
          THEN [Self EXCEPT !.dropdown_open = FALSE]
          ELSE Self)

\* the quit dialog, reached after the session ended and its score was
\* recorded, and after the test sound was chosen in SETTINGS
AtQuitDialog ==
  /\ state = "QUIT_CONFIRM"
  /\ Len(leaderboards["hard"]) = 1
  /\ test_sound_type = "explosion"
  /\ ~dropdown_open
  /\ active_leaderboard = "easy"


\* ------------------------------------------------------------------------
\* Persistence
\* ------------------------------------------------------------------------
\* C20: saving the best scores and loading them again yields the dictionary
\* that was saved, and saving the leaderboards and loading them again yields
\* the tables that were saved, entry for entry and in the same order.
SavedThenLoadedIsIdentical ==
  /\ load_high_scores(save_high_scores(Self).hs_file) = high_scores
  /\ load_leaderboards(save_leaderboards(Self).lb_file) = leaderboards

\* the tables as saved after a name was recorded, one of them holding names
\* with a backslash and with a quote
RecordSavedAmongQuotedNames ==
  /\ lb_file = <<json_dump_leaderboards(leaderboards)>>
  /\ hs_file = <<json_dump_high_scores(high_scores)>>
  /\ leaderboards # SavedLeaderboards
  /\ high_scores # SavedHighScores
  /\ \E i \in 1..Len(leaderboards["hard"]) : leaderboards["hard"][i].name = <<"\\", "P">>
  /\ \E i \in 1..Len(leaderboards["hard"]) : leaderboards["hard"][i].name = <<"\"", "Q">>


\* ------------------------------------------------------------------------
\* Files that cannot be loaded
\* ------------------------------------------------------------------------
\* the files that are absent, not to be opened, cut short or empty
UnloadableHighScoreFiles ==
  { <<>>, <<json_dump_high_scores(SavedHighScores), "denied">>,
    <<Cut(json_dump_high_scores(SavedHighScores))>>, <<<<>>>> }
UnloadableLeaderboardFiles ==
  { <<>>, <<json_dump_leaderboards(SavedLeaderboards), "denied">>,
    <<Cut(json_dump_leaderboards(SavedLeaderboards))>>, <<<<>>>> }

\* C21: when the file is absent, cannot be opened or cannot be parsed,
\* load_high_scores returns {easy: 0, medium: 0, hard: 0} and
\* load_leaderboards returns {easy: [], medium: [], hard: []}; the program is
\* constructed without an error and with the files as they were found.
UnloadableFilesGiveDefaults ==
  (sessions = 0 /\ state = "MAIN_MENU") =>
    /\ UnloadableHighScoreFiles \subseteq HighScoreFiles
    /\ UnloadableLeaderboardFiles \subseteq LeaderboardFiles
    /\ \A h \in UnloadableHighScoreFiles :
         load_high_scores(h) = [easy |-> 0, medium |-> 0, hard |-> 0]
    /\ \A l \in UnloadableLeaderboardFiles :
         load_leaderboards(l) = [easy |-> <<>>, medium |-> <<>>, hard |-> <<>>]
    /\ \A f \in FilesFound :
         LET g == Constructed(f)
         IN ~g.crashed /\ g.running /\ g.hs_file = f[1] /\ g.lb_file = f[2]
    /\ hs_file \in UnloadableHighScoreFiles =>
         high_scores = [easy |-> 0, medium |-> 0, hard |-> 0]
    /\ lb_file \in UnloadableLeaderboardFiles =>
         leaderboards = [easy |-> <<>>, medium |-> <<>>, hard |-> <<>>]

\* a session is played on the defaults loaded from a file cut short, which
\* is still as it was found
PlayingOnDefaults ==
  /\ state = "PLAYING"
  /\ lb_file = <<Cut(json_dump_leaderboards(SavedLeaderboards))>>
  /\ leaderboards = DefaultLeaderboards
  /\ high_scores = DefaultHighScores
  /\ ticks > 0


\* ------------------------------------------------------------------------
\* Files of another shape
\* ------------------------------------------------------------------------
\* C22: whatever the two files hold at startup, no operation that looks a
\* table up by difficulty (the game-over sequence, the validation and the
\* insertion of a name, the display of a table or of a best score) raises:
\* the program never ends on an exception.
NeverRaisesWhateverTheFiles == ~crashed


\* the document a file holds, an absent file counting as the document of
\* the default table; <<FALSE, <<>>>> when the file holds no document
Persisted(file, default) ==
  IF file = <<>> THEN <<TRUE, default>>
  ELSE IF Opens(file) THEN json_load(file[1])
  ELSE <<FALSE, <<>>>>

\* C23 as stated: at every frame boundary the document of each file equals
\* the table in memory, an absent file counting as the default table.
PersistedEqualsMemory ==
  /\ Persisted(hs_file, DefaultHighScores) = <<TRUE, high_scores>>
  /\ Persisted(lb_file, DefaultLeaderboards) = <<TRUE, leaderboards>>

\* C23: at every frame boundary what each file would load as equals the
\* table in memory, a file that is absent, cannot be opened or cannot be
\* parsed counting as the default table: every change of a table has been
\* written in full.
LoadedEqualsMemory ==
  /\ load_high_scores(hs_file) = high_scores
  /\ load_leaderboards(lb_file) = leaderboards

\* a name has been recorded and written while the file of best scores, which
\* cannot be opened, is as it was found
RecordedBesideUnopenedFile ==
  /\ Len(hs_file) = 2
  /\ high_scores = DefaultHighScores
  /\ Len(leaderboards["easy"]) = 1
  /\ lb_file = <<json_dump_leaderboards(leaderboards)>>
  /\ state = "GAME_OVER"


\* ------------------------------------------------------------------------
\* The main loop
\* ------------------------------------------------------------------------
\* the step is a window-close event, or the click on YES in QUIT_CONFIRM
ExplicitQuit ==
  \/ Becomes(handle_quit(Self))
  \/ state = "QUIT_CONFIRM" /\ Becomes(shown(handle_mousebuttondown(Self, "yes")))

\* C24: the main loop stops only through an explicit quit, a window-close
\* event in any screen or the click on YES in QUIT_CONFIRM; the click on NO
\* shows MAIN_MENU with the loop still running; no tick, validation failure,
\* wrong password or game-over sequence stops the loop.
LoopStopsOnlyByQuit ==
  [][(running /\ ~crashed) =>
       /\ ~crashed'
       /\ ~running' => ExplicitQuit
       /\ (state = "QUIT_CONFIRM" /\ Becomes(shown(handle_mousebuttondown(Self, "no"))))
            => (state' = "MAIN_MENU" /\ running')]_vars


\* ------------------------------------------------------------------------
\* The score
\* ------------------------------------------------------------------------
\* a session is in progress or has ended and is still shown
InSession ==
  \/ state \in {"PLAYING", "NAME_ENTRY", "GAME_OVER"}
  \/ state = "SETTINGS" /\ previous_state = "PLAYING"

\* the enemies of the session that are neither on screen nor paid for with
\* a life: every enemy past the bottom and every enemy that touched the
\* player was removed for one life, the others were removed by a bullet
DestroyedByBullets == spawned - Len(enemies) - (StartLives(difficulty) - lives)

\* C25: the score is a non-negative multiple of 10; in a session it is 10
\* times the number of enemies destroyed by bullets since start_game; and it
\* never decreases but at a start_game, which sets it to 0.
ScoreCountsEnemiesShot ==
  /\ [](/\ score >= 0
        /\ score % 10 = 0
        /\ InSession => score = 10 * DestroyedByBullets)
  /\ [][score' < score =>
          /\ state \in {"CHARACTER_SELECT", "GAME_OVER"}
          /\ state' = "PLAYING"
          /\ score' = 0
          /\ ticks' = 0]_vars

\* an enemy has been shot, and the session has ended at that score
EndedWithOneShot ==
  /\ state = "GAME_OVER"
  /\ score = 10
  /\ DestroyedByBullets = 1
  /\ shots >= 1


\* ------------------------------------------------------------------------
\* Lives and the game_over flag
\* ------------------------------------------------------------------------
\* C26: whenever the screen is PLAYING at a frame boundary, paused or not
\* and also after SETTINGS, lives >= 1 and game_over is false; whenever the
\* screen is NAME_ENTRY or GAME_OVER, game_over is true.
AliveWhilePlayingOverAfter ==
  /\ state = "PLAYING" => (lives >= 1 /\ ~game_over)
  /\ state \in {"NAME_ENTRY", "GAME_OVER"} => game_over

\* the pause menu on the last life, back from SETTINGS where the checkbox
\* was ticked
LastLifeBackFromSettings ==
  /\ state = "PLAYING"
  /\ paused
  /\ lives = 1
  /\ fullscreen
  /\ ~game_over


\* ------------------------------------------------------------------------
\* The settings widgets
\* ------------------------------------------------------------------------
\* where a click handed to the dropdown can be: on its header, on one of
\* its options, or on neither
DropdownClicks == {"dropdown", "option_1", "option_2", "nowhere"}
OptionAt(w) == IF w = "option_1" THEN 1 ELSE IF w = "option_2" THEN 2 ELSE 0

SettingsClicks == SettingsWidgets("SETTINGS", FALSE)

\* what the slider returns on a mouse-down at w, on a mouse-up, and on a
\* motion to offset x
ReturnedOnDown(s, on) == Slider_handle_event(s, "MOUSEBUTTONDOWN", on, 0)[2]
ReturnedOnUp(s) == Slider_handle_event(s, "MOUSEBUTTONUP", FALSE, 0)[2]
ReturnedOnMotion(s, x) == Slider_handle_event(s, "MOUSEMOTION", FALSE, x)[2]

\* C28: Slider.handle_event returns True exactly on the first mouse-up that
\* follows a mouse-down on the slider's handle or track, and not again until
\* another such mouse-down: a motion, a mouse-down anywhere and a mouse-up
\* with no mouse-down on the slider before it return False; so the test
\* sound is asked for once per drag of the SFX slider, at its release.
SliderReportsFirstRelease ==
  /\ test_sound_type \in {"laser", "explosion"}
  /\ state = "SETTINGS" =>
       /\ ReturnedOnUp(sfx_slider) = ("sfx" \in pressed)
       /\ ReturnedOnUp(music_slider) = ("music" \in pressed)
       /\ handle_mousebuttonup(Self).pressed = {}
       /\ \A w \in SettingsClicks :
            /\ ~ReturnedOnDown(sfx_slider, OnSfx(w))
            /\ ~ReturnedOnDown(music_slider, OnMusic(w))
            /\ test_sounds(Self, "MOUSEBUTTONDOWN", w, 0) = <<>>
       /\ \A x \in PointerXs :
            /\ ~ReturnedOnMotion(sfx_slider, x)
            /\ ~ReturnedOnMotion(music_slider, x)
            /\ test_sounds(Self, "MOUSEMOTION", "nowhere", x) = <<>>
       /\ test_sounds(Self, "MOUSEBUTTONUP", "nowhere", 0) =
            IF "sfx" \in pressed THEN <<test_sound_type>> ELSE <<>>

\* the SFX slider was pressed, dragged to the middle of its track and
\* released, with the explosion chosen as the test sound
DraggedAndReleased ==
  /\ state = "SETTINGS"
  /\ pressed = {}
  /\ ~sfx_slider.was_dragging
  /\ sfx_slider.value = 130 * 100 * SLIDER_MAX
  /\ test_sound_type = "explosion"


\* the value at pointer offset x by the linear map of the track onto
\* [min_val, max_val], offsets off the track giving the nearer end
LinearImage(s, x) ==
  IF x <= 0 THEN s.min_val * Scale
  ELSE IF x >= SLIDER_WIDTH THEN s.max_val * Scale
  ELSE s.min_val * Scale + (x * (s.max_val - s.min_val) * Scale) \div SLIDER_WIDTH

WithinRange(s) == s.min_val * Scale <= s.value /\ s.value <= s.max_val * Scale

\* C29: a slider's value is within [min_val, max_val]; a motion during a
\* drag sets it to the linear image of the pointer's offset on the track,
\* clamped to the track's ends; sfx_volume and music_volume are within
\* [0, 1]; and the value changes on a mouse motion during a drag only.
SliderValueFollowsDrag ==
  /\ [](/\ WithinRange(sfx_slider) /\ WithinRange(music_slider)
        /\ 0 <= sfx_volume /\ sfx_volume <= Scale
        /\ 0 <= music_volume /\ music_volume <= Scale
        /\ sfx_volume = get_value(sfx_slider)
        /\ music_volume = get_value(music_slider)
        /\ state = "SETTINGS" =>
             \A x \in PointerXs :
               LET g == handle_mousemotion(Self, x)
               IN /\ "sfx" \in pressed => g.sfx_slider.value = LinearImage(sfx_slider, x)
                  /\ "music" \in pressed => g.music_slider.value = LinearImage(music_slider, x))
  /\ [][/\ sfx_slider'.value # sfx_slider.value =>
             /\ "sfx" \in pressed
             /\ \E x \in PointerXs : Becomes(shown(handle_mousemotion(Self, x)))
        /\ music_slider'.value # music_slider.value =>
             /\ "music" \in pressed
             /\ \E x \in PointerXs : Becomes(shown(handle_mousemotion(Self, x)))]_vars

\* the music slider held at the right end of its track, the pointer past it
MusicDraggedPastTheEnd ==
  /\ state = "SETTINGS"
  /\ "music" \in pressed
  /\ music_slider.dragging
  /\ music_slider.value = SLIDER_MAX * Scale
  /\ music_volume = Scale
  /\ sfx_volume = SFX_VOLUME


Outcome(g) ==
  <<g.score, g.lives, g.bullets, g.enemies, g.enemy_spawn_timer, g.high_scores, g.state>>

\* C31: once end_game has run inside a tick, the rest of the tick changes
\* nothing: when the tick completes, score, lives, bullets, enemies, spawn
\* timer, best scores and the screen chosen are as end_game left them.
RestOfTickChangesNothing ==
  (state = "PLAYING" /\ ~paused /\ ~game_over) =>
    \A keys \in Moves :
      LET moved == MovementPhase(handle_game_input(Self, keys))
          done == update_game(handle_game_input(Self, keys), DrawnX(99))
      IN moved.game_over => Outcome(done) = Outcome(moved)


\* ------------------------------------------------------------------------
\* Best scores and leaderboards
\* ------------------------------------------------------------------------
\* the tables of the difficulties not played are as they were loaded: empty
\* and zero when the program started on the default tables
OthersAsDefault ==
  \A d \in Difficulties \ {difficulty} :
    leaderboards[d] = DefaultLeaderboards[d] /\ high_scores[d] = DefaultHighScores[d]

\* C32: starting from the default tables, the best score of each difficulty
\* is at least the score of every entry of its leaderboard.
BestScoreCoversLeaderboard ==
  OthersAsDefault =>
    \A d \in Difficulties :
      \A i \in 1..Len(leaderboards[d]) : high_scores[d] >= leaderboards[d][i].score


\* ------------------------------------------------------------------------
\* The ways an enemy leaves play
\* ------------------------------------------------------------------------
\* the enemies that a phase of the tick has removed, the lives it has taken
\* and the points it has awarded
Left(g, h) == Len(g.enemies) - Len(h.enemies)

LivesTaken(g, h) == g.lives - h.lives

Awarded(g, h) == h.score - g.score

\* C33: every enemy leaves play through exactly one event: the bullet loop
\* removes an enemy for 10 points and no life, the enemy loop (past the
\* bottom) and the player loop (collision, at most one a tick) remove an
\* enemy for one life and no points; apart from these the enemies are only
\* discarded together by start_game.
EnemyLeavesByOneEvent ==
  /\ []((state = "PLAYING" /\ ~paused /\ ~game_over) =>
          \A keys \in Moves :
            LET g0 == handle_game_input(Self, keys)
                g1 == MovementPhase(g0)
                g2 == SpawnStep(g1, DrawnX(99))
                g3 == BulletLoop(g2, g2.bullets, 1)
                g4 == PlayerLoop(g3)
            IN /\ Awarded(g0, g1) = 0
               /\ LivesTaken(g0, g1) = Left(g0, g1)
               /\ Left(g0, g1) >= 0
               /\ LivesTaken(g2, g3) = 0
               /\ Awarded(g2, g3) = POINTS * Left(g2, g3)
               /\ Left(g2, g3) >= 0
               /\ Awarded(g3, g4) = 0
               /\ LivesTaken(g3, g4) = Left(g3, g4)
               /\ Left(g3, g4) \in {0, 1}
               /\ ~g1.crashed => update_game(g0, DrawnX(99)) = g4)
  /\ [][(enemies' # enemies /\ ~(state = "PLAYING" /\ ~paused /\ ticks' = ticks + 1)) =>
          /\ state \in {"CHARACTER_SELECT", "GAME_OVER"}
          /\ state' = "PLAYING"
          /\ enemies' = <<>>
          /\ ticks' = 0]_vars

\* a session has ended in which an enemy was shot and the others that left
\* cost a life each, and the enemies left on screen wait for start_game
LeftByBulletAndByLife ==
  /\ state \in {"NAME_ENTRY", "GAME_OVER"}
  /\ score >= POINTS
  /\ lives <= 0
  /\ Len(enemies) > 0
  /\ spawned - Len(enemies) = (StartLives(difficulty) - lives) + score \div POINTS


\* ------------------------------------------------------------------------
\* One insertion for a session routed to NAME_ENTRY
\* ------------------------------------------------------------------------
WithoutAt(s, i) == SubSeq(s, 1, i - 1) \o SubSeq(s, i + 1, Len(s))

\* table new is table old with one entry of that name and score put in, and
\* cut to the size of a leaderboard
InsertedOnce(old, new, n, s) ==
  \E i \in 1..Len(new) :
    /\ new[i] = [name |-> n, score |-> s]
    /\ WithoutAt(new, i) = Take(old, LEADERBOARD_SIZE - 1)

\* what an event leaves of NAME_ENTRY: the screen with the tables as they
\* were, or GAME_OVER with the session's name and score inserted once
StaysOrSubmits(h) ==
  \/ /\ h.state = "NAME_ENTRY"
     /\ h.leaderboards = leaderboards
  \/ /\ h.state = "GAME_OVER"
     /\ validate_name(Self, player_name)[1]
     /\ \A d \in Difficulties \ {difficulty} : h.leaderboards[d] = leaderboards[d]
     /\ InsertedOnce(leaderboards[difficulty], h.leaderboards[difficulty],
                     Take(player_name, NAME_LIMIT), score)

\* C34: a session routed to NAME_ENTRY leaves it only by a valid name
\* submission (RETURN or the submit button), which inserts its entry once and
\* shows GAME_OVER; no key, ESC included, cancels; nothing pressed in
\* GAME_OVER, RESTART and MENU included, changes a leaderboard; and a session
\* routed directly to GAME_OVER inserts nothing.
OneInsertionPerNameEntry ==
  /\ [](state = "NAME_ENTRY" =>
          /\ \A key \in TextKeys : StaysOrSubmits(handle_keydown(Self, key))
          /\ \A w \in ScreenWidgets("NAME_ENTRY", paused) :
               StaysOrSubmits(handle_mousebuttondown(Self, w)))
  /\ [](state = "GAME_OVER" =>
          /\ \A key \in TextKeys : handle_keydown(Self, key).leaderboards = leaderboards
          /\ \A w \in ScreenWidgets("GAME_OVER", paused) :
               /\ handle_mousebuttondown(Self, w).leaderboards = leaderboards
               /\ handle_mousebuttondown(Self, w).state # "NAME_ENTRY")
  /\ [][(state' = "NAME_ENTRY" /\ state # "NAME_ENTRY") =>
          (state = "PLAYING" /\ leaderboards' = leaderboards)]_vars
  /\ [][(state' = "GAME_OVER" /\ state = "PLAYING") => leaderboards' = leaderboards]_vars
  /\ [][leaderboards' # leaderboards =>
          (state = "NAME_ENTRY" /\ state' = "GAME_OVER")]_vars

\* the session's entry has displaced the last of a full table, and GAME_OVER
\* is shown
DisplacedTheLastEntry ==
  /\ state = "GAME_OVER"
  /\ Len(leaderboards[difficulty]) = LEADERBOARD_SIZE
  /\ score > 0
  /\ \E i \in 1..LEADERBOARD_SIZE :
       /\ leaderboards[difficulty][i] = [name |-> player_name, score |-> score]
       /\ WithoutAt(leaderboards[difficulty], i) =
            Take(SavedLeaderboards[difficulty], LEADERBOARD_SIZE - 1)


\* ------------------------------------------------------------------------
\* Where the pause can be on
\* ------------------------------------------------------------------------
UnpausedScreens ==
  {"MAIN_MENU", "DIFFICULTY_SELECT", "CHARACTER_SELECT", "LEADERBOARD",
   "PASSWORD_ENTRY", "NAME_ENTRY", "GAME_OVER", "QUIT_CONFIRM"}

\* C35: paused is true only while the screen is PLAYING or SETTINGS; the
\* screen to return to is PLAYING exactly when the screen is SETTINGS and
\* paused is true; on every other screen paused is false.
PausedOnlyInPlayOrSettings ==
  /\ paused => state \in {"PLAYING", "SETTINGS"}
  /\ (previous_state = "PLAYING") <=> (state = "SETTINGS" /\ paused)
  /\ state \in UnpausedScreens => ~paused

\* the main menu reached from the pause menu, the session left in flight
LeftThroughPauseMenu ==
  /\ state = "MAIN_MENU"
  /\ ~paused
  /\ ~game_over
  /\ enemies # <<>>
  /\ previous_state = "None"


\* ------------------------------------------------------------------------
\* The difficulty and the ship
\* ------------------------------------------------------------------------
\* C36: the difficulty changes only by a click on a difficulty button of
\* DIFFICULTY_SELECT and the selected ship only by a click on a ship of
\* CHARACTER_SELECT; from start_game until the session's result is recorded
\* the difficulty is constant; a leaderboard tab never changes it.
DifficultyAndShipChosenInTheirScreens ==
  /\ [][difficulty' # difficulty =>
          /\ state = "DIFFICULTY_SELECT"
          /\ state' = "CHARACTER_SELECT"
          /\ handle_mouse_click(Self, difficulty').difficulty = difficulty']_vars
  /\ [][selected_character' # selected_character =>
          /\ state = "CHARACTER_SELECT"
          /\ state' = "PLAYING"
          /\ \E w \in Ships : selected_character' = CharacterFile[w]]_vars
  /\ [][(InSession /\ state # "GAME_OVER") => difficulty' = difficulty]_vars
  /\ [][state = "GAME_OVER" => difficulty' = difficulty]_vars
  /\ [](state = "LEADERBOARD" =>
          \A w \in Difficulties :
            LET h == handle_mousebuttondown(Self, w)
            IN h.difficulty = difficulty /\ h.active_leaderboard = w)

\* a session on easy with the second ship, chosen after a session on hard,
\* while the LEADERBOARD screen was left on another tab
EasyWithSecondShip ==
  /\ state = "PLAYING"
  /\ difficulty = "easy"
  /\ selected_character = "player2.PNG"
  /\ active_leaderboard = "hard"
  /\ lives = StartLives("easy")


\* ------------------------------------------------------------------------
\* The end of a session left to the enemies
\* ------------------------------------------------------------------------
\* ticks an enemy takes from its spawn to the tick that removes it past the
\* bottom edge, and the tick by which the last life of a session is lost
FallTicks(d) == (SCREEN_HEIGHT * 100 + ENEMY_HEIGHT * 100) \div EnemySpeed(StartMultiplier(d)) + 1

LastTick(d) == StartLives(d) * enemy_spawn_delay + FallTicks(d)

\* C37: while the screen is PLAYING, ticks keep occurring, the game is never
\* paused and no bullet is fired, the session eventually ends in NAME_ENTRY
\* or GAME_OVER: every enemy on screen is above the bottom edge and falls by
\* its speed in every tick, each enemy that leaves costs one life, and the
\* last life is lost within a bounded number of ticks.
SessionEndsWithoutShots ==
  /\ (state = "PLAYING") ~> (state \in {"NAME_ENTRY", "GAME_OVER"})
  /\ [](state = "PLAYING" =>
          /\ ticks < LastTick(difficulty)
          /\ bullets = <<>>
          /\ score = 0
          /\ \A i \in 1..Len(enemies) : enemies[i].y <= SCREEN_HEIGHT * 100
          /\ spawned - Len(enemies) = StartLives(difficulty) - lives)
  /\ [][state = "PLAYING" =>
          /\ ticks' = ticks + 1
          /\ lives' <= lives
          /\ \A i \in 1..Len(enemies') :
               i <= Len(enemies) - (lives - lives') =>
                 \E j \in 1..Len(enemies) :
                   enemies'[i] = EnemyUpdate(enemies[j], game_speed_multiplier)]_vars

\* the session on medium has ended with the player in the way of some of
\* the enemies and out of the way of the others
EndedOnMediumUnshot ==
  /\ state \in {"NAME_ENTRY", "GAME_OVER"}
  /\ difficulty = "medium"
  /\ lives = 0
  /\ score = 0
  /\ bullets = <<>>
  /\ player # <<PlayerStartX>>
  /\ ticks > StartLives("medium") * enemy_spawn_delay
  /\ ticks < LastTick("medium") - enemy_spawn_delay


\* ------------------------------------------------------------------------
\* Music
\* ------------------------------------------------------------------------
\* a step that start_game has taken: from CHARACTER_SELECT or by RESTART
SessionStarted ==
  /\ state \in {"CHARACTER_SELECT", "GAME_OVER"}
  /\ state' = "PLAYING"

\* C38: with the gameplay music loaded, the gameplay music is playing when a
\* session has just been started by start_game, a RESTART from GAME_OVER
\* included, and current_music always agrees with what the mixer is playing.
GameplayMusicInEverySession ==
  /\ [][(gameplay_music_loaded /\ SessionStarted) => music_playing' = "gameplay"]_vars
  /\ [](current_music = music_playing)


\* ------------------------------------------------------------------------
\* The password box
\* ------------------------------------------------------------------------
\* C39: whenever the screen is not PASSWORD_ENTRY, password_input and
\* password_error are empty, and both are empty when PASSWORD_ENTRY is
\* entered; in PASSWORD_ENTRY the input never exceeds 20 characters, and a
\* failed submission keeps the typed input.
PasswordBoxClearedOutside ==
  /\ [](state # "PASSWORD_ENTRY" => (password_input = <<>> /\ password_error = ""))
  /\ [](Len(password_input) <= 20)
  /\ []((state = "PASSWORD_ENTRY" /\ password_input # ADMIN_PASSWORD) =>
          \A g \in Submitted :
            g.state = "PASSWORD_ENTRY" /\ g.password_input = password_input)
  /\ [][(state # "PASSWORD_ENTRY" /\ state' = "PASSWORD_ENTRY") =>
          (password_input' = <<>> /\ password_error' = "")]_vars

\* the box is full and what it holds has been submitted and refused
FullBoxRefused ==
  /\ state = "PASSWORD_ENTRY"
  /\ Len(password_input) = 20
  /\ password_error = "Incorrect password!"

====
